---- MODULE Spec2Model ----
(***************************************************************************)
(* Model of the SQLite MCP gateway (berthojoris/sqlite-mcp):               *)
(*   SecurityManager  (src/src/security/index.ts)   validateQuery          *)
(*   DatabaseManager  (src/src/database/index.ts)   pool, executor         *)
(*   MCPSQLiteServer  (src/unnamed/part_005)        tool-call handlers     *)
(*                                                                         *)
(* A statement is a sequence of lexemes (words and punctuation); its text  *)
(* is the lexemes joined by single blanks.  A word is a maximal run of     *)
(* word characters, so a regular expression's \b holds exactly at the two  *)
(* ends of a word lexeme, and character offsets are computed from the      *)
(* lexemes' lengths.                                                       *)
(***************************************************************************)
EXTENDS Integers, Sequences, FiniteSets, TLC

VARIABLES
    lastIndex,          \* SecurityManager.dangerousPatterns[i].lastIndex (the /g flag)
    vin, vout,          \* the arguments and the result of the last direct validateQuery call
    clientPermissions,  \* MCPSQLiteServer.clientPermissions : Map<clientId, PermissionType[]>
    calls,              \* the tool calls in flight: one record per request slot
    connectionPool,     \* DatabaseManager.connectionPool (idle handles, a stack)
    activeConnections,  \* DatabaseManager.activeConnections
    nextHandle,         \* the identity the next opened handle gets
    committed,          \* the database file: the committed effects, in order
    lent,               \* per caller: the handle its getConnection() returned
    db,                 \* DatabaseManager.db (the primary handle, or null)
    closed,             \* the handles whose close() has run
    rateLimitMap,       \* SecurityManager.rateLimitMap : Map<clientId, {count, resetTime}>
    auditLogs,          \* SecurityManager.auditLogs : AuditLogEntry[]
    now,                \* Date.now(), in milliseconds
    job                 \* the bulk job whose batch loop is running, if any

secVars  == <<lastIndex>>
harnVars == <<vin, vout>>
srvVars  == <<clientPermissions, calls>>
lendVars == <<lent, db, closed>>
limVars  == <<rateLimitMap, auditLogs, now, job>>
dbVars   == <<connectionPool, activeConnections, nextHandle, committed, lendVars>>
vars     == <<lastIndex, vin, vout, clientPermissions, calls,
              connectionPool, activeConnections, nextHandle, committed,
              lent, db, closed, rateLimitMap, auditLogs, now, job>>

None == "none"

\* A field that holds no record yet.
NotSet == [none |-> TRUE]

(***************************************************************************)
(* Sequences                                                               *)
(***************************************************************************)
Range(s) == {s[i] : i \in 1..Len(s)}

Max(S) == CHOOSE x \in S : \A y \in S : y <= x

Min(S) == CHOOSE x \in S : \A y \in S : x <= y

\* All sequences over S of length at most n.
SeqUpTo(S, n) == UNION {[1..k -> S] : k \in 0..n}

RECURSIVE SelectSeqIdx(_, _, _)
\* The lexemes of q at the positions (from i on) that are not in the set drop.
SelectSeqIdx(q, drop, i) ==
    IF i > Len(q) THEN <<>>
    ELSE (IF i \in drop THEN <<>> ELSE <<q[i]>>) \o SelectSeqIdx(q, drop, i + 1)

(***************************************************************************)
(* Lexemes                                                                 *)
(***************************************************************************)
SQ == "'"
DQ == "\""
NL == "\\n"          \* a line break
LONGWORD == "x{10001}"  \* an identifier of 10001 letters

Words ==
    {"SELECT", "select", "INSERT", "UPDATE", "DELETE", "DROP", "REPLACE",
     "VACUUM", "BEGIN", "COMMIT", "FROM", "INTO", "WHERE", "SET", "VALUES",
     "TABLE", "AND", "OR", "exec", "users", "name", "id", "age", "city",
     "updated_at", "1", LONGWORD}

Puncts == {"*", "(", ")", "=", ">", "?", ",", ";", SQ, DQ, "--", "/*", "*/", NL}

Lexemes == Words \cup Puncts

\* String.prototype.length of one lexeme.
LexLen(l) ==
    CASE l = LONGWORD -> 10001
      [] l = "updated_at" -> 10
      [] l \in {"REPLACE"} -> 7
      [] l \in {"SELECT", "select", "INSERT", "UPDATE", "DELETE", "VACUUM",
                "COMMIT", "VALUES"} -> 6
      [] l \in {"BEGIN", "WHERE", "TABLE", "users"} -> 5
      [] l \in {"DROP", "FROM", "INTO", "exec", "name", "city"} -> 4
      [] l \in {"SET", "AND", "age"} -> 3
      [] l \in {"OR", "id", "--", "/*", "*/"} -> 2
      [] OTHER -> 1

\* String.prototype.toUpperCase of one lexeme.
ToUpperCase(l) ==
    CASE l = "select" -> "SELECT"
      [] l = "exec" -> "EXEC"
      [] l = "users" -> "USERS"
      [] l = "name" -> "NAME"
      [] l = "id" -> "ID"
      [] l = "age" -> "AGE"
      [] l = "city" -> "CITY"
      [] l = "updated_at" -> "UPDATED_AT"
      [] l = LONGWORD -> "X{10001}"
      [] OTHER -> l

\* String.prototype.includes(keyword) on an upper-cased lexeme: keywords are
\* letters only, so an occurrence lies inside one word.
Includes(u, keyword) ==
    \/ u = keyword
    \/ u = "UPDATED_AT" /\ keyword = "UPDATE"

\* The character offset at which lexeme i of q starts, and the one just after it.
RECURSIVE StartOf(_, _)
StartOf(q, i) == IF i = 1 THEN 0 ELSE StartOf(q, i - 1) + LexLen(q[i - 1]) + 1

EndOf(q, i) == StartOf(q, i) + LexLen(q[i])

\* query.length
QueryLength(q) == IF q = <<>> THEN 0 ELSE EndOf(q, Len(q))

(***************************************************************************)
(* SecurityManager: the dangerous patterns (security/index.ts 16-24)       *)
(***************************************************************************)
Head1 == {"UNION", "SELECT", "INSERT", "UPDATE", "DELETE", "DROP", "CREATE",
          "ALTER", "EXEC", "EXECUTE", "SP_", "XP_"}

Tail1 == {"FROM", "INTO", "WHERE", "SET", "VALUES", "TABLE", "DATABASE", "SCHEMA"}

Class2 == {";", "||", "&&", "/*", "*/", "--", "#"}

Class3 == {"SCRIPT", "JAVASCRIPT", "VBSCRIPT", "ONLOAD", "ONERROR", "ONCLICK"}

Class4 == {"EVAL", "EXEC", "SYSTEM", "SHELL", "CMD"}

Class5 == {SQ, "%27", "\\x27", "\\u0027"}

Class6 == {DQ, "%22", "\\x22", "\\u0022"}

Class7 == {"OR", "AND"}

\* \d+
IsNumber(l) == l \in {"1"}

\* \s* : the first position from k on that holds no white space.
RECURSIVE SkipWs(_, _)
SkipWs(q, k) == IF k <= Len(q) /\ q[k] = NL THEN SkipWs(q, k + 1) ELSE k

\* The tails of pattern 1 that follow the head at i on the same line ('.' does
\* not match a line break).
TailsAfter(q, i) ==
    {j \in (i + 1)..Len(q) :
        /\ ToUpperCase(q[j]) \in Tail1
        /\ \A k \in i..j : q[k] # NL}

\* The lexeme at which the match of pattern p that starts at lexeme i ends
\* (0: no match of p starts at i).  The patterns are case-insensitive where
\* they name words, and '.*' is greedy.
MatchEndAt(p, q, i) ==
    CASE p = 1 ->
           IF ToUpperCase(q[i]) \in Head1 /\ TailsAfter(q, i) # {}
           THEN Max(TailsAfter(q, i)) ELSE 0
      [] p = 2 -> IF q[i] \in Class2 THEN i ELSE 0
      [] p = 3 -> IF ToUpperCase(q[i]) \in Class3 THEN i ELSE 0
      [] p = 4 -> IF ToUpperCase(q[i]) \in Class4 THEN i ELSE 0
      [] p = 5 -> IF ToUpperCase(q[i]) \in Class5 \/ q[i] \in Class5 THEN i ELSE 0
      [] p = 6 -> IF ToUpperCase(q[i]) \in Class6 \/ q[i] \in Class6 THEN i ELSE 0
      [] p = 7 ->
           LET n1 == SkipWs(q, i + 1)
               eq == SkipWs(q, n1 + 1)
               n2 == SkipWs(q, eq + 1)
           IN IF /\ ToUpperCase(q[i]) \in Class7
                 /\ n2 <= Len(q)
                 /\ IsNumber(q[n1]) /\ q[eq] = "=" /\ IsNumber(q[n2])
              THEN n2 ELSE 0

dangerousPatterns == 1..7

\* RegExp.prototype.test of a /g pattern: the search starts at the pattern's
\* lastIndex; a match leaves lastIndex just after the match, a failure leaves 0.
Test(p, q, from) ==
    LET starts == {i \in 1..Len(q) : StartOf(q, i) >= from /\ MatchEndAt(p, q, i) # 0}
    IN IF starts = {}
       THEN [matched |-> FALSE, lastIndex |-> 0]
       ELSE [matched |-> TRUE, lastIndex |-> EndOf(q, MatchEndAt(p, q, Min(starts)))]

(***************************************************************************)
(* SecurityManager: permissions (security/index.ts 27-46, 150-181)         *)
(***************************************************************************)
PermissionType ==
    {"list", "read", "create", "update", "delete", "execute", "ddl",
     "transaction", "utility"}

permissionKeywords ==
    << [keyword |-> "SELECT",    perms |-> {"read", "list"}],
       [keyword |-> "INSERT",    perms |-> {"create"}],
       [keyword |-> "UPDATE",    perms |-> {"update"}],
       [keyword |-> "DELETE",    perms |-> {"delete"}],
       [keyword |-> "CREATE",    perms |-> {"ddl"}],
       [keyword |-> "ALTER",     perms |-> {"ddl"}],
       [keyword |-> "DROP",      perms |-> {"ddl"}],
       [keyword |-> "TRUNCATE",  perms |-> {"ddl"}],
       [keyword |-> "BEGIN",     perms |-> {"transaction"}],
       [keyword |-> "COMMIT",    perms |-> {"transaction"}],
       [keyword |-> "ROLLBACK",  perms |-> {"transaction"}],
       [keyword |-> "SAVEPOINT", perms |-> {"transaction"}],
       [keyword |-> "VACUUM",    perms |-> {"utility"}],
       [keyword |-> "ANALYZE",   perms |-> {"utility"}],
       [keyword |-> "REINDEX",   perms |-> {"utility"}],
       [keyword |-> "PRAGMA",    perms |-> {"utility"}],
       [keyword |-> "ATTACH",    perms |-> {"utility"}],
       [keyword |-> "DETACH",    perms |-> {"utility"}] >>

\* query.trim().toUpperCase()
Normalize(q) == [i \in 1..Len(q) |-> ToUpperCase(q[i])]

\* normalizedQuery.includes(keyword)
QueryIncludes(nq, keyword) == \E i \in 1..Len(nq) : Includes(nq[i], keyword)

RECURSIVE DetectFrom(_, _)
DetectFrom(nq, k) ==
    IF k > Len(permissionKeywords) THEN <<>>
    ELSE (IF QueryIncludes(nq, permissionKeywords[k].keyword)
          THEN <<permissionKeywords[k].keyword>> ELSE <<>>)
         \o DetectFrom(nq, k + 1)

\* The keywords of the table that occur in the normalized query, in table order.
detectSQLOperations(normalizedQuery) == DetectFrom(normalizedQuery, 1)

\* PermsOf reading only the first scope listed for SELECT.
PermsOfSelectReadOnly(op) ==
    IF op = "SELECT" THEN {"read"}
    ELSE UNION {permissionKeywords[k].perms :
                  k \in {n \in 1..Len(permissionKeywords) : permissionKeywords[n].keyword = op}}

\* this.permissionKeywords[op] || []
PermsOf(op) ==
    UNION {permissionKeywords[k].perms :
             k \in {n \in 1..Len(permissionKeywords) : permissionKeywords[n].keyword = op}}

getRequiredPermissions(operations) ==
    UNION {PermsOf(operations[i]) : i \in 1..Len(operations)}

\* checkPermissions with some() in place of every().
checkPermissionsSome(clientPerms, requiredPermissions) ==
    requiredPermissions = {} \/ \E required \in requiredPermissions : required \in clientPerms

checkPermissions(clientPerms, requiredPermissions) ==
    \A required \in requiredPermissions : required \in clientPerms

hasPermission(clientPerms, requiredPermission) == requiredPermission \in clientPerms

(***************************************************************************)
(* SecurityManager: sanitizing and structure (security/index.ts 186-225)   *)
(***************************************************************************)
\* The position of the first l in q at or after position k (0: none).
RECURSIVE IndexFrom(_, _, _)
IndexFrom(q, l, k) ==
    IF k > Len(q) THEN 0 ELSE IF q[k] = l THEN k ELSE IndexFrom(q, l, k + 1)

\* replace(/'[^']*'/g, '') (and the same for "): every span from a quote to the
\* next quote of the same kind is removed, left to right.
RECURSIVE RemoveQuoted(_, _)
RemoveQuoted(q, quote) ==
    LET open == IndexFrom(q, quote, 1)
        close == IF open = 0 THEN 0 ELSE IndexFrom(q, quote, open + 1)
    IN IF close = 0 THEN q
       ELSE SubSeq(q, 1, open - 1) \o RemoveQuoted(SubSeq(q, close + 1, Len(q)), quote)

containsMultipleStatements(query) ==
    LET withoutStrings == RemoveQuoted(RemoveQuoted(query, SQ), DQ)
    IN Cardinality({i \in 1..Len(withoutStrings) : withoutStrings[i] = ";"}) > 1

containsSubqueries(query) ==
    /\ QueryIncludes(Normalize(query), "SELECT")
    /\ "(" \in Range(query)
    /\ ")" \in Range(query)

\* replace(/--.*$/gm, ''): from each "--" to the end of its line.
RECURSIVE StripLineComments(_)
StripLineComments(q) ==
    LET c == IndexFrom(q, "--", 1)
        e == IF c = 0 THEN 0 ELSE IndexFrom(q, NL, c)
    IN IF c = 0 THEN q
       ELSE IF e = 0 THEN SubSeq(q, 1, c - 1)
       ELSE SubSeq(q, 1, c - 1) \o StripLineComments(SubSeq(q, e, Len(q)))

\* replace(/\/\*[\s\S]*?\*\//g, ''): from each "/*" to the next "*/".
RECURSIVE StripBlockComments(_)
StripBlockComments(q) ==
    LET c == IndexFrom(q, "/*", 1)
        e == IF c = 0 THEN 0 ELSE IndexFrom(q, "*/", c + 1)
    IN IF e = 0 THEN q
       ELSE SubSeq(q, 1, c - 1) \o StripBlockComments(SubSeq(q, e + 1, Len(q)))

\* replace(/\s+/g, ' ').trim(): lexemes are joined by single blanks, so what
\* is left of the white space is the line breaks.
CollapseWhitespace(q) == SelectSeq(q, LAMBDA l : l # NL)

sanitizeQuery(query) == CollapseWhitespace(StripBlockComments(StripLineComments(query)))

\* The parameters argument: an array of values, or something that is not an
\* array (an object, a string).
Array(items) == [isArray |-> TRUE, items |-> items]

NotAnArray == [isArray |-> FALSE, items |-> <<>>]

Num(v) == [t |-> "number", v |-> v]

Str(v) == [t |-> "string", v |-> v]

\* param.replace(/[<>'"&]/g, '')
StripChars(v) ==
    CASE v = "O'Brien" -> "OBrien"
      [] v = "<b>" -> "b"
      [] v = "a&b" -> "ab"
      [] OTHER -> v

sanitizeParameters(parameters) ==
    Array([i \in 1..Len(parameters.items) |->
             IF parameters.items[i].t = "string"
             THEN Str(StripChars(parameters.items[i].v)) ELSE parameters.items[i]])

(***************************************************************************)
(* SecurityManager.validateQuery (security/index.ts 62-145)                *)
(***************************************************************************)
MaxQueryLength == 10000

Err(msg) == [msg |-> msg, pattern |-> 0, required |-> {}, available |-> {}]

DangerousErr(p) ==
    [msg |-> "Potentially dangerous SQL pattern detected", pattern |-> p,
     required |-> {}, available |-> {}]

PermissionErr(requiredPerms, clientPerms) ==
    [msg |-> "Insufficient permissions", pattern |-> 0,
     required |-> requiredPerms, available |-> clientPerms]

RECURSIVE PatternErrors(_, _, _)
\* The loop over dangerousPatterns: one error per pattern whose test succeeds.
PatternErrors(query, li, p) ==
    IF p \notin dangerousPatterns THEN <<>>
    ELSE (IF Test(p, query, li[p]).matched THEN <<DangerousErr(p)>> ELSE <<>>)
         \o PatternErrors(query, li, p + 1)

\* What the loop leaves in each pattern's lastIndex.
PatternState(query, li) == [p \in dangerousPatterns |-> Test(p, query, li[p]).lastIndex]

RejectedEarly(msg) ==
    [isValid |-> FALSE, errors |-> <<Err(msg)>>, detectedOperations |-> <<>>,
     requiredPermissions |-> {}, sanitizedQuery |-> None, parameters |-> NotSet]

\* validateQuery(query, parameters, clientPermissions) with the patterns'
\* lastIndex li: the result, and the lastIndex it leaves.
validateQuery(query, parameters, clientPerms, li) ==
    IF query = <<>>
    THEN [result |-> RejectedEarly("Query must be a non-empty string"), lastIndex |-> li]
    ELSE IF QueryLength(query) > MaxQueryLength
    THEN [result |-> RejectedEarly("Query exceeds maximum length limit"), lastIndex |-> li]
    ELSE
    LET normalizedQuery == Normalize(query)
        detectedOps == detectSQLOperations(normalizedQuery)
        requiredPerms == getRequiredPermissions(detectedOps)
        errors ==
            PatternErrors(query, li, 1)
            \o (IF ~checkPermissions(clientPerms, requiredPerms)
                THEN <<PermissionErr(requiredPerms, clientPerms)>> ELSE <<>>)
            \o (IF ~parameters.isArray
                THEN <<Err("Parameters must be an array")>> ELSE <<>>)
            \o (IF containsMultipleStatements(query)
                THEN <<Err("Multiple statements not allowed")>> ELSE <<>>)
            \o (IF containsSubqueries(query) /\ "read" \notin clientPerms
                THEN <<Err("Subqueries require read permission")>> ELSE <<>>)
    IN [result |->
          [isValid |-> errors = <<>>,
           errors |-> errors,
           detectedOperations |-> detectedOps,
           requiredPermissions |-> requiredPerms,
           sanitizedQuery |-> IF errors = <<>> THEN sanitizeQuery(query) ELSE None,
           parameters |-> IF errors = <<>> THEN sanitizeParameters(parameters) ELSE NotSet],
        lastIndex |-> PatternState(query, li)]

(***************************************************************************)
(* Initial state: a fresh SecurityManager, a configured server, the pool   *)
(* after DatabaseManager.initialize.                                       *)
(***************************************************************************)
FreshLastIndex == [p \in dangerousPatterns |-> 0]

(***************************************************************************)
(* DatabaseManager: the connection pool (database/index.ts 125-170)        *)
(***************************************************************************)
maxConnections == 4
IdleTarget == 3

\* this.db, the primary handle.
Primary == 0

\* null / undefined where a handle is expected.
NoHandle == Primary - 1

\* The callers that can hold a handle at the same time (executeQuery,
\* executeTransaction and the bulk jobs each hold one between getConnection
\* and returnConnection).
MaxCallers == 4

Callers == 1..MaxCallers

\* After initialize(): nobody holds a handle, this.db is open.
InitLend ==
    /\ lent = [c \in Callers |-> NoHandle]
    /\ db = Primary
    /\ closed = {}

\* request.meta?.clientId || 'default'
CallerIds == {"default", "client-2"}

\* No caller has been seen, nothing is logged, no bulk job is running.
InitLim ==
    /\ rateLimitMap = [c \in CallerIds |-> NotSet]
    /\ auditLogs = <<>>
    /\ now = 0
    /\ job = NotSet

Pool(idle, active, next) == [connectionPool |-> idle, activeConnections |-> active,
                             nextHandle |-> next]

ThePool == Pool(connectionPool, activeConnections, nextHandle)

\* initializeConnectionPool: Math.min(3, maxConnections) handles are opened;
\* one that cannot be opened is logged and left out.
InitialPools ==
    {Pool([i \in 1..k |-> i], 0, k + 1) :
        k \in 0..(IF IdleTarget < maxConnections THEN IdleTarget ELSE maxConnections)}

\* The pool when every handle of initializeConnectionPool could be opened.
FullPool == CHOOSE P \in InitialPools : \A Q \in InitialPools :
                Len(Q.connectionPool) <= Len(P.connectionPool)

\* getConnectionFrom opening a new handle while activeConnections <= maxConnections.
getConnectionOneMore(P, thisDb) ==
    IF Len(P.connectionPool) > 0
    THEN {[ok |-> TRUE, handle |-> P.connectionPool[Len(P.connectionPool)],
           pool |-> Pool(SubSeq(P.connectionPool, 1, Len(P.connectionPool) - 1),
                         P.activeConnections + 1, P.nextHandle)]}
    ELSE IF P.activeConnections <= maxConnections
    THEN {[ok |-> TRUE, handle |-> P.nextHandle,
           pool |-> Pool(P.connectionPool, P.activeConnections + 1, P.nextHandle + 1)]}
    ELSE {[ok |-> TRUE, handle |-> thisDb, pool |-> P]}

\* getConnectionFrom reading the last idle handle without removing it.
getConnectionNoPop(P, thisDb) ==
    IF Len(P.connectionPool) > 0
    THEN {[ok |-> TRUE, handle |-> P.connectionPool[Len(P.connectionPool)],
           pool |-> Pool(P.connectionPool, P.activeConnections, P.nextHandle)]}
    ELSE IF P.activeConnections < maxConnections
    THEN {[ok |-> TRUE, handle |-> P.nextHandle,
           pool |-> Pool(P.connectionPool, P.activeConnections + 1, P.nextHandle + 1)]}
    ELSE {[ok |-> TRUE, handle |-> thisDb, pool |-> P]}

\* getConnectionFrom counting the primary handle it lends.
getConnectionCountingPrimary(P, thisDb) ==
    IF Len(P.connectionPool) > 0
    THEN {[ok |-> TRUE, handle |-> P.connectionPool[Len(P.connectionPool)],
           pool |-> Pool(SubSeq(P.connectionPool, 1, Len(P.connectionPool) - 1),
                         P.activeConnections + 1, P.nextHandle)]}
    ELSE IF P.activeConnections < maxConnections
    THEN {[ok |-> TRUE, handle |-> P.nextHandle,
           pool |-> Pool(P.connectionPool, P.activeConnections + 1, P.nextHandle + 1)]}
    ELSE {[ok |-> TRUE, handle |-> thisDb,
           pool |-> Pool(P.connectionPool, P.activeConnections + 1, P.nextHandle)]}

\* getConnection() when this.db holds thisDb: the handle lent and the pool it
\* leaves.  Opening a new handle can throw, after activeConnections was
\* incremented.
getConnectionFrom(P, thisDb) ==
    IF Len(P.connectionPool) > 0
    THEN {[ok |-> TRUE, handle |-> P.connectionPool[Len(P.connectionPool)],
           pool |-> Pool(SubSeq(P.connectionPool, 1, Len(P.connectionPool) - 1),
                         P.activeConnections + 1, P.nextHandle)]}
    ELSE IF P.activeConnections < maxConnections
    THEN {[ok |-> TRUE, handle |-> P.nextHandle,
           pool |-> Pool(P.connectionPool, P.activeConnections + 1, P.nextHandle + 1)],
          [ok |-> FALSE, handle |-> thisDb,
           pool |-> Pool(P.connectionPool, P.activeConnections + 1, P.nextHandle)]}
    ELSE {[ok |-> TRUE, handle |-> thisDb, pool |-> P]}

\* getConnection() while the manager is open (this.db is the primary handle).
getConnection(P) == getConnectionFrom(P, Primary)

\* returnConnectionTo pooling the handle while the idle list is not above
\* the target.
returnConnectionToOneMore(P, connection, thisDb) ==
    IF connection # thisDb /\ Len(P.connectionPool) <= IdleTarget
    THEN {Pool(Append(P.connectionPool, connection), P.activeConnections - 1, P.nextHandle)}
    ELSE IF connection # thisDb
    THEN {Pool(P.connectionPool, P.activeConnections - 1, P.nextHandle), P}
    ELSE {P}

\* returnConnection(connection) when this.db holds thisDb: the pools it can
\* leave (closing a handle can throw; the error is logged and
\* activeConnections is left as it is).
returnConnectionTo(P, connection, thisDb) ==
    IF connection # thisDb /\ Len(P.connectionPool) < IdleTarget
    THEN {Pool(Append(P.connectionPool, connection), P.activeConnections - 1, P.nextHandle)}
    ELSE IF connection # thisDb
    THEN {Pool(P.connectionPool, P.activeConnections - 1, P.nextHandle), P}
    ELSE {P}

\* returnConnection(connection) while the manager is open.
returnConnection(P, connection) == returnConnectionTo(P, connection, Primary)

\* close(): the pooled handles are closed in list order, the list is emptied,
\* this.db is closed and set to null, activeConnections is reset; a close()
\* that throws ends it there (the error is logged).  failAt is the position
\* of the close() that throws: 0 for none, Len + 1 for this.db.
close(P, thisDb, failAt) ==
    LET n == Len(P.connectionPool)
        upTo(k) == {P.connectionPool[i] : i \in 1..k}
    IN IF failAt \in 1..n
       THEN [pool |-> P, db |-> thisDb, closedNow |-> upTo(failAt - 1)]
       ELSE IF failAt = n + 1 /\ thisDb # NoHandle
       THEN [pool |-> Pool(<<>>, P.activeConnections, P.nextHandle), db |-> thisDb,
             closedNow |-> upTo(n)]
       ELSE [pool |-> Pool(<<>>, 0, P.nextHandle), db |-> NoHandle,
             closedNow |-> upTo(n) \cup ({thisDb} \ {NoHandle})]

\* getConnectionPoolStats()
getConnectionPoolStats(P) ==
    [totalConnections |-> Len(P.connectionPool) + P.activeConnections + 1,
     activeConnections |-> P.activeConnections,
     idleConnections |-> Len(P.connectionPool),
     waitingRequests |-> 0]

(***************************************************************************)
(* The engine behind a handle (better-sqlite3 over one database file):     *)
(* prepare/run of one statement, and Database.transaction(fn).             *)
(***************************************************************************)
\* The file holds at most MaxCommitted effects: the engine rejects a write
\* that would exceed it (SQLITE_FULL).
MaxCommitted == 2

\* The first word of the statement, upper-cased (query.trim().toUpperCase()).
FirstWord(query) ==
    LET k == SkipWs(query, 1) IN IF k > Len(query) THEN "" ELSE ToUpperCase(query[k])

\* Statements that change rows or the schema when they run.
IsWrite(query) == FirstWord(query) \in {"INSERT", "UPDATE", "DELETE", "REPLACE", "DROP"}

Engine(file, pending, inTransaction) ==
    [committed |-> file, pending |-> pending, inTransaction |-> inTransaction]

\* stmt.run / stmt.all of one statement on a handle: the engine may reject any
\* statement (syntax, constraint, missing table); transaction control follows
\* the handle's transaction state; a write lands in the open transaction, or
\* in the file when none is open (autocommit).
EngineRun(e, query) ==
    LET w == FirstWord(query)
        fail == [ok |-> FALSE, engine |-> e]
    IN CASE w = "BEGIN" ->
              IF e.inTransaction THEN {fail}
              ELSE {[ok |-> TRUE, engine |-> Engine(e.committed, <<>>, TRUE)]}
         [] w = "COMMIT" ->
              IF ~e.inTransaction THEN {fail}
              ELSE {[ok |-> TRUE,
                     engine |-> Engine(e.committed \o e.pending, <<>>, FALSE)]}
         [] w = "ROLLBACK" ->
              IF ~e.inTransaction THEN {fail}
              ELSE {[ok |-> TRUE, engine |-> Engine(e.committed, <<>>, FALSE)]}
         [] IsWrite(query) ->
              IF Len(e.committed) + Len(e.pending) >= MaxCommitted THEN {fail}
              ELSE {fail,
                    [ok |-> TRUE,
                     engine |-> IF e.inTransaction
                                THEN Engine(e.committed, Append(e.pending, query), TRUE)
                                ELSE Engine(Append(e.committed, query), <<>>, FALSE)]}
         [] OTHER -> {fail, [ok |-> TRUE, engine |-> e]}

RECURSIVE RunAll(_, _, _)
\* The body of the transaction function: the statements from position i on,
\* in order, up to the first one the engine rejects.
RunAll(e, queries, i) ==
    IF i > Len(queries) THEN {[ok |-> TRUE, engine |-> e]}
    ELSE UNION {IF r.ok THEN RunAll(r.engine, queries, i + 1) ELSE {r} :
                  r \in EngineRun(e, queries[i].query)}

\* connection.transaction(fn)(queries): BEGIN, fn, COMMIT; when fn or COMMIT
\* throws, ROLLBACK if the handle is still in a transaction, and rethrow.
Transaction(e, queries) ==
    UNION {
      LET body == RunAll(b.engine, queries, 1)
      IN UNION {
           IF r.ok
           THEN {IF c.ok THEN c
                 ELSE [ok |-> FALSE,
                       engine |-> IF c.engine.inTransaction
                                  THEN Engine(c.engine.committed, <<>>, FALSE)
                                  ELSE c.engine] :
                   c \in EngineRun(r.engine, <<"COMMIT">>)}
           ELSE {[ok |-> FALSE,
                  engine |-> IF r.engine.inTransaction
                             THEN Engine(r.engine.committed, <<>>, FALSE)
                             ELSE r.engine]}
           : r \in body}
      : b \in {x \in EngineRun(e, <<"BEGIN">>) : x.ok} }

(***************************************************************************)
(* DatabaseManager.executeQuery / executeTransaction (database 241-368)    *)
(***************************************************************************)
\* executeQuery running the statement a second time when the engine rejects it.
executeQueryRetry(P, file, query) ==
    UNION {
      IF ~g.ok
      THEN {[thrown |-> TRUE, success |-> FALSE, pool |-> g.pool, committed |-> file,
             handle |-> g.handle, ran |-> <<>>]}
      ELSE UNION {
             IF r.ok
             THEN {[thrown |-> FALSE, success |-> TRUE, pool |-> p2,
                    committed |-> r.engine.committed, handle |-> g.handle,
                    ran |-> <<query>>] : p2 \in returnConnection(g.pool, g.handle)}
             ELSE {[thrown |-> FALSE, success |-> r2.ok, pool |-> p2,
                    committed |-> r2.engine.committed, handle |-> g.handle,
                    ran |-> <<query, query>>] :
                     r2 \in EngineRun(Engine(file, <<>>, FALSE), query),
                     p2 \in returnConnection(g.pool, g.handle)}
             : r \in EngineRun(Engine(file, <<>>, FALSE), query)}
      : g \in getConnection(P)}

\* executeQuery(query, parameters): borrow, run the one statement, return the
\* handle in the finally block.  thrown: getConnection threw before the try.
\* ran: the statements handed to the engine.
executeQuery(P, file, query) ==
    UNION {
      IF ~g.ok
      THEN {[thrown |-> TRUE, success |-> FALSE, pool |-> g.pool, committed |-> file,
             handle |-> g.handle, ran |-> <<>>]}
      ELSE {[thrown |-> FALSE, success |-> r.ok, pool |-> p2,
             committed |-> r.engine.committed, handle |-> g.handle, ran |-> <<query>>] :
              r \in EngineRun(Engine(file, <<>>, FALSE), query),
              p2 \in returnConnection(g.pool, g.handle)}
      : g \in getConnection(P)}

\* The QueryResult executeQuery returns: from the try block, or from the
\* catch block with (error as Error).message and Date.now() - startTime.
QueryResult(success, message, executionTime) ==
    IF success THEN [success |-> TRUE, executionTime |-> executionTime]
    ELSE [success |-> FALSE, error |-> message, executionTime |-> executionTime]

\* executeTransaction(queries): borrow, run the list in one engine transaction,
\* return the handle in the finally block.
executeTransaction(P, file, queries) ==
    UNION {
      IF ~g.ok
      THEN {[thrown |-> TRUE, success |-> FALSE, pool |-> g.pool, committed |-> file,
             handle |-> g.handle]}
      ELSE {[thrown |-> FALSE, success |-> r.ok, pool |-> p2,
             committed |-> r.engine.committed, handle |-> g.handle] :
              r \in Transaction(Engine(file, <<>>, FALSE), queries),
              p2 \in returnConnection(g.pool, g.handle)}
      : g \in getConnection(P)}

(***************************************************************************)
(* DatabaseManager.bulkInsert / bulkUpdate / bulkDelete (database 559-941) *)
(***************************************************************************)
MaxRecords == 2

\* What the engine does with one record's statement: it runs and changes
\* rows, it throws, or (update, delete) it runs and changes no row.
RecordOutcomes(kind) ==
    IF kind = "insert" THEN {"ok", "error"} ELSE {"ok", "error", "norows"}

\* data.options?.batchSize || 1000
DefaultBatchSize == 1000

\* data.options?.<name> || false
BoolOption(options, name) == name \in DOMAIN options /\ options[name]

BatchSizeOf(batchSize) == IF batchSize = 0 THEN DefaultBatchSize ELSE batchSize

\* Math.ceil(n / batchSize)
Ceil(n, batchSize) == (n + batchSize - 1) \div batchSize

\* The progress object at the start of a job.
NewProgress(n, batchSize) ==
    [totalRecords |-> n, processedRecords |-> 0, successfulRecords |-> 0,
     failedRecords |-> 0, currentBatch |-> 0, totalBatches |-> Ceil(n, batchSize),
     errors |-> <<>>]

\* A job inside its transaction function: the progress, the statements run
\* so far (ran), the writes that took effect (pending), whether it threw.
NewJob(n, batchSize) ==
    [progress |-> NewProgress(n, batchSize), ran |-> <<>>, pending |-> <<>>,
     thrown |-> FALSE]

BulkError(recordIndex, error) == [recordIndex |-> recordIndex, error |-> error]

\* RecordStep leaving processedRecords alone for a record that failed.
RecordStepFailedUncounted(item, outcome, continueOnError, recordIndex, st) ==
    LET p == st.progress
        seen == [st EXCEPT !.ran = Append(@, item)]
    IN IF outcome = "ok"
       THEN [seen EXCEPT !.pending = Append(@, item),
                         !.progress.successfulRecords = @ + 1,
                         !.progress.processedRecords = @ + 1]
       ELSE [seen EXCEPT !.progress.failedRecords = @ + 1,
                         !.progress.errors = Append(@, BulkError(recordIndex, outcome)),
                         !.thrown = (outcome = "error" /\ ~continueOnError)]

\* RecordStep recording every failure under index 0.
RecordStepIndexLost(item, outcome, continueOnError, recordIndex, st) ==
    LET seen == [st EXCEPT !.ran = Append(@, item)]
    IN IF outcome = "ok"
       THEN [seen EXCEPT !.pending = Append(@, item),
                         !.progress.successfulRecords = @ + 1,
                         !.progress.processedRecords = @ + 1]
       ELSE IF outcome = "error" /\ ~continueOnError
       THEN [seen EXCEPT !.progress.failedRecords = @ + 1,
                         !.progress.errors = Append(@, BulkError(0, outcome)),
                         !.thrown = TRUE]
       ELSE [seen EXCEPT !.progress.failedRecords = @ + 1,
                         !.progress.errors = Append(@, BulkError(0, outcome)),
                         !.progress.processedRecords = @ + 1]

\* One pass of the inner loop's body for the record at recordIndex = i + j:
\* the statement runs; a statement that changes rows counts as successful;
\* an update or delete that changes no row counts as failed and is recorded,
\* without a throw; a statement that throws counts as failed, is recorded,
\* and is rethrown unless continueOnError; processedRecords++ follows when
\* nothing was thrown.
RecordStep(item, outcome, continueOnError, recordIndex, st) ==
    LET seen == [st EXCEPT !.ran = Append(@, item)]
    IN IF outcome = "ok"
       THEN [seen EXCEPT !.pending = Append(@, item),
                         !.progress.successfulRecords = @ + 1,
                         !.progress.processedRecords = @ + 1]
       ELSE IF outcome = "error" /\ ~continueOnError
       THEN [seen EXCEPT !.progress.failedRecords = @ + 1,
                         !.progress.errors = Append(@, BulkError(recordIndex, outcome)),
                         !.thrown = TRUE]
       ELSE [seen EXCEPT !.progress.failedRecords = @ + 1,
                         !.progress.errors = Append(@, BulkError(recordIndex, outcome)),
                         !.progress.processedRecords = @ + 1]

RECURSIVE RecordLoop(_, _, _, _, _, _, _)
\* for (let j = 0; j < batch.length; j++), where batch = slice(i, i + batchSize)
RecordLoop(items, outcomes, continueOnError, i, len, j, st) ==
    IF j >= len \/ st.thrown THEN st
    ELSE RecordLoop(items, outcomes, continueOnError, i, len, j + 1,
                    RecordStep(items[i + j + 1], outcomes[i + j + 1], continueOnError,
                               i + j, st))

RECURSIVE BatchLoop(_, _, _, _, _, _)
\* for (let i = 0; i < n; i += batchSize)
BatchLoop(items, outcomes, continueOnError, batchSize, i, st) ==
    IF i >= Len(items) \/ st.thrown THEN st
    ELSE BatchLoop(items, outcomes, continueOnError, batchSize, i + batchSize,
                   RecordLoop(items, outcomes, continueOnError, i,
                              Min({batchSize, Len(items) - i}), 0,
                              [st EXCEPT !.progress.currentBatch = @ + 1]))

\* FinishJob answering success only when no record failed.
FinishJobStrict(file, st, continueOnError) ==
    [thrown |-> st.thrown,
     success |-> ~st.thrown /\ st.progress.failedRecords = 0,
     progress |-> st.progress,
     ran |-> st.ran,
     committed |-> IF st.thrown THEN file ELSE file \o st.pending]

\* transaction() and what follows it: a throw rolls the transaction back and
\* is rethrown; otherwise the writes are committed and the result is built.
FinishJob(file, st, continueOnError) ==
    [thrown |-> st.thrown,
     success |-> ~st.thrown /\ (st.progress.failedRecords = 0 \/ continueOnError),
     progress |-> st.progress,
     ran |-> st.ran,
     committed |-> IF st.thrown THEN file ELSE file \o st.pending]

\* The job on one borrowed handle, inside one engine transaction, from the
\* state st0 the steps before the batch loop left.
BulkRunFrom(file, items, outcomes, continueOnError, batchSize, st0) ==
    FinishJob(file, BatchLoop(items, outcomes, continueOnError, batchSize, 0, st0),
              continueOnError)

\* bulkUpdate, bulkDelete without cascade, bulkInsert without related data,
\* with the default batch size.
BulkRun(file, statements, outcomes, continueOnError) ==
    BulkRunFrom(file, statements, outcomes, continueOnError, DefaultBatchSize,
                NewJob(Len(statements), DefaultBatchSize))

\* The rowid the engine generates for the first row a job inserts.
FirstRowid == 10

\* new Map<any, any>()
NoMapping == [v \in {} |-> 0]

\* valueMapping.set(key, id)
MapSet(m, key, id) == [v \in DOMAIN m \cup {key} |-> IF v = key THEN id ELSE m[v]]

RECURSIVE SetReferenced(_, _, _, _, _)
\* for (const [localColumn, mapping] of Object.entries(foreignKeyMappings)):
\* the record's referenced value, when it has one, maps to the new rowid.
SetReferenced(m, fks, record, rowid, k) ==
    IF k > Len(fks) THEN m
    ELSE SetReferenced(IF fks[k].referencedColumn \in DOMAIN record
                       THEN MapSet(m, record[fks[k].referencedColumn], rowid)
                       ELSE m,
                       fks, record, rowid, k + 1)

\* One related record: the insert runs and its rowid is mapped; an insert
\* that throws is rethrown unless continueOnError, and is otherwise recorded
\* with recordIndex -1, outside the failedRecords count.
RelatedRecordStep(tableName, fks, record, outcome, continueOnError, rs) ==
    LET item == [table |-> tableName, row |-> record]
        seen == [rs EXCEPT !.job.ran = Append(@, item)]
    IN IF outcome = "ok"
       THEN [seen EXCEPT !.job.pending = Append(@, item),
                         !.mapping = SetReferenced(@, fks, record, rs.nextRowid, 1),
                         !.nextRowid = @ + 1]
       ELSE IF ~continueOnError
       THEN [seen EXCEPT !.job.thrown = TRUE]
       ELSE [seen EXCEPT !.job.progress.errors = Append(@, BulkError(0 - 1, outcome))]

RECURSIVE RelatedRecords(_, _, _, _, _)
\* for (const relatedRecord of tableData.records)
RelatedRecords(tableData, outcomes, continueOnError, r, rs) ==
    IF r > Len(tableData.records) \/ rs.job.thrown THEN rs
    ELSE RelatedRecords(tableData, outcomes, continueOnError, r + 1,
                        RelatedRecordStep(tableData.tableName, tableData.foreignKeyMappings,
                                          tableData.records[r], outcomes[r],
                                          continueOnError, rs))

RECURSIVE RelatedTables(_, _, _, _, _)
\* for (const [tableName, tableData] of Object.entries(data.relatedData)):
\* a table's entry given as the bare array of its rows has no records
\* property, and iterating it throws a TypeError inside the transaction.
RelatedTables(relatedData, outcomes, continueOnError, t, rs) ==
    IF t > Len(relatedData) \/ rs.job.thrown THEN rs
    ELSE IF ~relatedData[t].shaped
    THEN [rs EXCEPT !.job.thrown = TRUE, !.mappings = Append(@, NoMapping)]
    ELSE LET done == RelatedRecords(relatedData[t], outcomes[t], continueOnError, 1,
                                    [job |-> rs.job, mapping |-> NoMapping,
                                     nextRowid |-> rs.nextRowid])
         IN RelatedTables(relatedData, outcomes, continueOnError, t + 1,
                          [job |-> done.job, mappings |-> Append(rs.mappings, done.mapping),
                           nextRowid |-> done.nextRowid])

RECURSIVE RemapColumns(_, _, _, _)
\* for (const [localColumn, fkMapping] of Object.entries(foreignKeyMappings))
RemapColumns(record, fks, m, k) ==
    IF k > Len(fks) THEN record
    ELSE LET c == fks[k].localColumn
         IN RemapColumns(IF c \in DOMAIN record /\ record[c] \in DOMAIN m
                         THEN [record EXCEPT ![c] = m[record[c]]]
                         ELSE record,
                         fks, m, k + 1)

RECURSIVE RemapTables(_, _, _, _)
\* Replace foreign key values with mapped IDs, table after table.
RemapTables(record, relatedData, mappings, t) ==
    IF t > Len(relatedData) \/ t > Len(mappings) THEN record
    ELSE RemapTables(IF relatedData[t].shaped
                     THEN RemapColumns(record, relatedData[t].foreignKeyMappings,
                                       mappings[t], 1)
                     ELSE record,
                     relatedData, mappings, t + 1)

\* bulkInsert on one borrowed handle: the related rows first, then the main
\* records in batches, all inside one engine transaction.
InsertRun(file, data, outcomes, relatedOutcomes) ==
    LET batchSize == BatchSizeOf(data.options.batchSize)
        continueOnError == BoolOption(data.options, "continueOnError")
        insertRelatedData == BoolOption(data.options, "insertRelatedData")
        start == [job |-> NewJob(Len(data.records), batchSize), mappings |-> <<>>,
                  nextRowid |-> FirstRowid]
        rs == IF insertRelatedData
              THEN RelatedTables(data.relatedData, relatedOutcomes, continueOnError, 1, start)
              ELSE start
        items == [i \in 1..Len(data.records) |->
                    [table |-> data.mainTable,
                     row |-> IF insertRelatedData
                             THEN RemapTables(data.records[i], data.relatedData,
                                              rs.mappings, 1)
                             ELSE data.records[i]]]
    IN BulkRunFrom(file, items, outcomes, continueOnError, batchSize, rs.job)

\* DELETE FROM <table> WHERE id = ? on the database D: the rows left.
DeleteWhere(D, table, v) == [D EXCEPT ![table] = {r \in @ : r.id # v}]

\* Whether a row of posts refers to the users row v (posts.user_id
\* REFERENCES users(id), with foreign_keys = ON).
Referenced(D, v) == \E p \in D.posts : p.user_id = v

\* The engine's answer to DELETE FROM users WHERE id = ?: the foreign key
\* constraint fails while a row of posts refers to the row; no row matches;
\* or the row is deleted.
DeleteParent(D, v) ==
    IF (\E u \in D.users : u.id = v) /\ Referenced(D, v)
    THEN [db |-> D, outcome |-> "error"]
    ELSE IF ~\E u \in D.users : u.id = v
    THEN [db |-> D, outcome |-> "norows"]
    ELSE [db |-> DeleteWhere(D, "users", v), outcome |-> "ok"]

RECURSIVE CascadeFrom(_, _, _, _)
\* for (const fkTable of foreignKeyTables): DELETE FROM fkTable WHERE <the
\* condition of the main delete>.
CascadeFrom(D, fkTables, v, t) ==
    IF t > Len(fkTables) THEN D
    ELSE CascadeFrom(DeleteWhere(D, fkTables[t], v), fkTables, v, t + 1)

DeleteStatement(table, v) == [table |-> table, row |-> [id |-> v]]

RECURSIVE DeleteRecords(_, _, _, _, _, _)
\* The records of a bulk delete on users, one after the other: the cascade
\* deletes, then the main delete; acc holds the database, each record's
\* outcome and the statements run.
DeleteRecords(conditions, cascadeDelete, fkTables, continueOnError, k, acc) ==
    IF k > Len(conditions)
       \/ (k > 1 /\ acc.outcomes[k - 1] = "error" /\ ~continueOnError)
    THEN acc
    ELSE LET v == conditions[k].id
             cascade == cascadeDelete /\ Len(fkTables) > 0
             D1 == IF cascade THEN CascadeFrom(acc.db, fkTables, v, 1) ELSE acc.db
             main == DeleteParent(D1, v)
         IN DeleteRecords(conditions, cascadeDelete, fkTables, continueOnError, k + 1,
                [db |-> main.db,
                 outcomes |-> Append(acc.outcomes, main.outcome),
                 ran |-> acc.ran
                         \o (IF cascade
                             THEN [t \in DOMAIN fkTables |-> DeleteStatement(fkTables[t], v)]
                             ELSE <<>>)
                         \o <<DeleteStatement("users", v)>>])

\* The tables that declare a foreign key to the table (the query on
\* sqlite_master and pragma_foreign_key_list).
ForeignKeyTables(table) == IF table = "users" THEN <<"posts">> ELSE <<>>

\* bulkDelete on one borrowed handle, on the database D.
DeleteRun(D, data) ==
    LET batchSize == BatchSizeOf(data.options.batchSize)
        continueOnError == BoolOption(data.options, "continueOnError")
        cascadeDelete == BoolOption(data.options, "cascadeDelete")
        fkTables == IF cascadeDelete THEN ForeignKeyTables(data.table) ELSE <<>>
        n == Len(data.conditions)
        done == DeleteRecords(data.conditions, cascadeDelete, fkTables, continueOnError, 1,
                              [db |-> D, outcomes |-> <<>>, ran |-> <<>>])
        outcomes == [k \in 1..n |-> IF k <= Len(done.outcomes) THEN done.outcomes[k]
                                    ELSE "ok"]
        r == BulkRunFrom(<<>>, [k \in 1..n |-> DeleteStatement(data.table, data.conditions[k].id)],
                         outcomes, continueOnError, batchSize, NewJob(n, batchSize))
    IN [thrown |-> r.thrown, success |-> r.success, progress |-> r.progress,
        ran |-> done.ran, outcomes |-> done.outcomes,
        committed |-> IF r.thrown THEN D ELSE done.db]

\* withConnection keeping the handle when the job throws.
withConnectionLeakOnThrow(P, r) ==
    UNION {
      IF ~g.ok
      THEN {[thrown |-> TRUE, borrowed |-> FALSE, pool |-> g.pool]}
      ELSE {[thrown |-> r.thrown, borrowed |-> TRUE, pool |-> p2, success |-> r.success,
             progress |-> r.progress, ran |-> r.ran, committed |-> r.committed,
             handle |-> g.handle, ranOn |-> [i \in DOMAIN r.ran |-> g.handle]] :
              p2 \in IF r.thrown THEN {g.pool} ELSE returnConnection(g.pool, g.handle)}
      : g \in getConnection(P)}

\* const connection = this.getConnection(); try { job } finally {
\* this.returnConnection(connection) }, where r is the job's course on the
\* borrowed handle: every statement of the job is prepared on connection
\* (ranOn), and the finally block is the one place the handle is returned.
withConnection(P, r) ==
    UNION {
      IF ~g.ok
      THEN {[thrown |-> TRUE, borrowed |-> FALSE, pool |-> g.pool]}
      ELSE {[thrown |-> r.thrown, borrowed |-> TRUE, pool |-> p2, success |-> r.success,
             progress |-> r.progress, ran |-> r.ran, committed |-> r.committed,
             handle |-> g.handle, ranOn |-> [i \in DOMAIN r.ran |-> g.handle]] :
              p2 \in returnConnection(g.pool, g.handle)}
      : g \in getConnection(P)}

\* bulkInsert / bulkUpdate / bulkDelete: borrow, run the job, return the
\* handle in the finally block.
bulkOperation(P, file, statements, outcomes, continueOnError) ==
    UNION {
      IF ~g.ok
      THEN {[thrown |-> TRUE, success |-> FALSE, pool |-> g.pool, committed |-> file,
             ran |-> <<>>, borrowed |-> FALSE]}
      ELSE {LET r == BulkRun(file, statements, outcomes, continueOnError)
            IN [thrown |-> r.thrown, success |-> r.success, pool |-> p2,
                committed |-> r.committed, ran |-> r.ran, borrowed |-> TRUE] :
              p2 \in returnConnection(g.pool, g.handle)}
      : g \in getConnection(P)}

(***************************************************************************)
(* MCPSQLiteServer: the tool-call handlers (part_005 336-739)              *)
(*                                                                         *)
(* A handler runs without interruption up to its next await; the steps of  *)
(* several requests, and setClientPermissions, interleave at the awaits.   *)
(***************************************************************************)
MaxCalls == 1

Slots == 1..MaxCalls

Clients == {"default"}

\* The callers of tools: the configured clients, and a clientId for which no
\* session was ever configured.
ToolCallers == Clients \cup {"client-2"}

Tools ==
    {"sqlite_query", "sqlite_insert", "sqlite_update", "sqlite_delete",
     "sqlite_schema", "sqlite_tables", "sqlite_transaction", "sqlite_backup",
     "sqlite_bulk_insert", "sqlite_bulk_update", "sqlite_bulk_delete"}

Request(query, items) == [query |-> query, parameters |-> Array(items)]

IdleCall ==
    [pc |-> "idle", tool |-> None, clientId |-> None, permissions |-> {},
     queries |-> <<>>, idx |-> 0, validation |-> NotSet, passed |-> {},
     ran |-> <<>>, ranParameters |-> <<>>, borrowed |-> FALSE, outcome |-> None]

\* PermissionsOf falling back on the scopes of the default session.
PermissionsOfDefaultSession(clientId) ==
    IF clientId \in DOMAIN clientPermissions THEN clientPermissions[clientId]
    ELSE clientPermissions["default"]

\* this.clientPermissions.get(clientId) || []
PermissionsOf(clientId) ==
    IF clientId \in DOMAIN clientPermissions THEN clientPermissions[clientId] ELSE {}

\* `INSERT INTO ${table} (${columns}) VALUES (${placeholders})`
RECURSIVE Join(_, _)
Join(items, sep) ==
    IF Len(items) = 0 THEN <<>>
    ELSE IF Len(items) = 1 THEN <<items[1]>>
    ELSE <<items[1]>> \o sep \o Join(Tail(items), sep)

Assignments(columns) == [i \in 1..Len(columns) |-> <<columns[i], "=", "?">>]

RECURSIVE JoinSeqs(_, _)
JoinSeqs(ss, sep) ==
    IF Len(ss) = 0 THEN <<>>
    ELSE IF Len(ss) = 1 THEN ss[1]
    ELSE ss[1] \o sep \o JoinSeqs(Tail(ss), sep)

BuildInsert(table, columns) ==
    <<"INSERT", "INTO", table, "(">> \o Join(columns, <<",">>)
    \o <<")", "VALUES", "(">> \o Join([i \in 1..Len(columns) |-> "?"], <<",">>) \o <<")">>

BuildUpdate(table, columns, where) ==
    <<"UPDATE", table, "SET">> \o JoinSeqs(Assignments(columns), <<",">>)
    \o <<"WHERE">> \o JoinSeqs(Assignments(where), <<"AND">>)

BuildDelete(table, where) ==
    <<"DELETE", "FROM", table, "WHERE">> \o JoinSeqs(Assignments(where), <<"AND">>)

\* The scopes a handler's first check looks for: the call goes on when the
\* caller's permissions include one of them (handleQuery: read or execute).
HandlerScopes(tool) ==
    CASE tool = "sqlite_query" -> {"read", "execute"}
      [] tool = "sqlite_insert" -> {"create"}
      [] tool = "sqlite_update" -> {"update"}
      [] tool = "sqlite_delete" -> {"delete"}
      [] tool = "sqlite_schema" -> {"list"}
      [] tool = "sqlite_tables" -> {"list"}
      [] tool = "sqlite_transaction" -> {"transaction"}
      [] tool = "sqlite_backup" -> {"utility"}
      [] tool = "sqlite_bulk_insert" -> {"create"}
      [] tool = "sqlite_bulk_update" -> {"update"}
      [] tool = "sqlite_bulk_delete" -> {"delete"}

Permitted(tool, permissions) == HandlerScopes(tool) \cap permissions # {}

\* The call in slot s ends with this outcome.
Finished(call, outcome) == [call EXCEPT !.pc = "done", !.outcome = outcome]

NewCall(tool, clientId, permissions, queries) ==
    [IdleCall EXCEPT !.tool = tool, !.clientId = clientId,
                     !.permissions = permissions, !.queries = queries]

\* throw new Error('Insufficient permissions for ...'), before anything else.
Deny(s, tool, clientId, permissions, queries) ==
    /\ calls' = [calls EXCEPT ![s] =
                   Finished(NewCall(tool, clientId, permissions, queries),
                            "Insufficient permissions")]
    /\ UNCHANGED <<secVars, harnVars, clientPermissions, dbVars, limVars>>

\* await this.securityManager.validateQuery(...) on statement k of the call:
\* validateQuery runs now, the handler goes on after the await.
Validate(s, call, k) ==
    LET v == validateQuery(call.queries[k].query, call.queries[k].parameters,
                           call.permissions, lastIndex)
    IN /\ lastIndex' = v.lastIndex
       /\ calls' = [calls EXCEPT ![s] =
                      [call EXCEPT !.pc = "awaitValidation", !.idx = k,
                                   !.validation = v.result,
                                   !.passed = IF v.result.isValid
                                              THEN @ \cup {call.queries[k].query}
                                              ELSE @]]
       /\ UNCHANGED <<harnVars, clientPermissions, dbVars, limVars>>

\* handleToolCall -> a handler of one statement: the permission check, then
\* the validation of the statement.
SingleStatementCall(s, tool, clientId, request) ==
    /\ calls[s].pc = "idle"
    /\ LET permissions == PermissionsOf(clientId)
       IN IF ~Permitted(tool, permissions)
          THEN Deny(s, tool, clientId, permissions, <<request>>)
          ELSE Validate(s, NewCall(tool, clientId, permissions, <<request>>), 1)

\* The tables, columns, statements and batches the requests are drawn from.
Table == "users"
Columns == <<"name">>
Where == <<"id">>

SelectUsers ==
    <<"SELECT", "*", "FROM", "users", "WHERE", "age", ">", "?", "AND", "city", "=", "?">>
SelectOne == <<"SELECT", "1">>
Vacuum == <<"VACUUM">>
ReplaceUsers == <<"REPLACE", "INTO", "users", "(", "name", ")", "VALUES", "(", "?", ")">>
Commit == <<"COMMIT">>

QueryChoices ==
    {Request(SelectUsers, <<Num("25"), Str("New York")>>),
     Request(SelectOne, <<>>),
     Request(Vacuum, <<>>),
     Request(ReplaceUsers, <<Str("a&b")>>)}

BatchChoices ==
    {<<>>,
     <<Request(ReplaceUsers, <<Str("John")>>)>>,
     <<Request(ReplaceUsers, <<Str("John")>>), Request(Commit, <<>>),
       Request(SelectOne, <<>>)>>,
     <<Request(SelectOne, <<>>), Request(BuildDelete(Table, Where), <<Num("1")>>)>>}

GrantChoices == {{}, {"execute", "utility"}, PermissionType}

HandleQuery(s, clientId, request) ==
    SingleStatementCall(s, "sqlite_query", clientId, request)

HandleInsert(s, clientId) ==
    SingleStatementCall(s, "sqlite_insert", clientId,
                        Request(BuildInsert(Table, Columns), <<Str("John")>>))

HandleUpdate(s, clientId) ==
    SingleStatementCall(s, "sqlite_update", clientId,
                        Request(BuildUpdate(Table, Columns, Where),
                                <<Str("John"), Num("1")>>))

HandleDelete(s, clientId) ==
    SingleStatementCall(s, "sqlite_delete", clientId,
                        Request(BuildDelete(Table, Where), <<Num("1")>>))

\* handleSchema / handleTables / handleBackup: the permission check, then
\* getSchemaInfo or backupDatabase on the primary handle (this.db); nothing
\* is borrowed and no statement of the caller runs.  failed: the engine threw.
PrimaryHandleCall(s, tool, clientId, failed) ==
    /\ calls[s].pc = "idle"
    /\ LET permissions == PermissionsOf(clientId)
       IN IF ~Permitted(tool, permissions)
          THEN Deny(s, tool, clientId, permissions, <<>>)
          ELSE /\ calls' = [calls EXCEPT ![s] =
                              Finished(NewCall(tool, clientId, permissions, <<>>),
                                       IF failed THEN "failed" ELSE "success")]
               /\ UNCHANGED <<secVars, harnVars, clientPermissions, dbVars, limVars>>

HandleSchema(s, clientId, failed) == PrimaryHandleCall(s, "sqlite_schema", clientId, failed)

HandleTables(s, clientId, failed) == PrimaryHandleCall(s, "sqlite_tables", clientId, failed)

HandleBackup(s, clientId, failed) == PrimaryHandleCall(s, "sqlite_backup", clientId, failed)

\* The executor's answer, taken up by the handler: the call ends.
Execute(s, call, r, ran) ==
    /\ calls' = [calls EXCEPT ![s] =
                   [Finished(call, IF r.thrown \/ ~r.success THEN "failed" ELSE "success")
                      EXCEPT !.ran = ran,
                             !.ranParameters = [i \in DOMAIN ran |-> call.queries[i].parameters],
                             !.borrowed = TRUE]]
    /\ connectionPool' = r.pool.connectionPool
    /\ activeConnections' = r.pool.activeConnections
    /\ nextHandle' = r.pool.nextHandle
    /\ committed' = r.committed
    /\ UNCHANGED <<secVars, harnVars, clientPermissions, lendVars, limVars>>

\* handleTransaction: the permission check, then the validation of the first
\* statement; an empty list goes to executeTransaction at once.
HandleTransaction(s, clientId, queries) ==
    /\ calls[s].pc = "idle"
    /\ LET permissions == PermissionsOf(clientId)
           call == NewCall("sqlite_transaction", clientId, permissions, queries)
       IN IF ~Permitted("sqlite_transaction", permissions)
          THEN Deny(s, "sqlite_transaction", clientId, permissions, queries)
          ELSE IF queries = <<>>
          THEN \E r \in executeTransaction(ThePool, committed, queries) :
                  Execute(s, call, r, <<>>)
          ELSE Validate(s, call, 1)

\* After the await: the statement was rejected, and the handler throws.
ResumeRejected(s) ==
    /\ calls[s].pc = "awaitValidation"
    /\ ~calls[s].validation.isValid
    /\ calls' = [calls EXCEPT ![s] = Finished(@, "validation failed")]
    /\ UNCHANGED <<secVars, harnVars, clientPermissions, dbVars, limVars>>

\* After the await, in handleTransaction's loop: the next statement is validated.
ResumeNextValidation(s) ==
    /\ calls[s].pc = "awaitValidation"
    /\ calls[s].validation.isValid
    /\ calls[s].idx < Len(calls[s].queries)
    /\ Validate(s, calls[s], calls[s].idx + 1)

\* ResumeExecute without the check of the last validation's isValid.
ResumeExecuteUnchecked(s) ==
    /\ calls[s].pc = "awaitValidation"
    /\ calls[s].idx = Len(calls[s].queries)
    /\ LET call == calls[s]
           list == [i \in 1..Len(call.queries) |-> call.queries[i].query]
       IN IF call.tool = "sqlite_transaction"
          THEN \E r \in executeTransaction(ThePool, committed, call.queries) :
                  Execute(s, call, r, list)
          ELSE \E r \in executeQuery(ThePool, committed, call.queries[1].query) :
                  Execute(s, call, r, list)

\* After the await: every statement was accepted; the raw query and
\* parameters go to executeQuery, or the list to executeTransaction.
ResumeExecute(s) ==
    /\ calls[s].pc = "awaitValidation"
    /\ calls[s].validation.isValid
    /\ calls[s].idx = Len(calls[s].queries)
    /\ LET call == calls[s]
           list == [i \in 1..Len(call.queries) |-> call.queries[i].query]
       IN IF call.tool = "sqlite_transaction"
          THEN \E r \in executeTransaction(ThePool, committed, call.queries) :
                  Execute(s, call, r, list)
          ELSE \E r \in executeQuery(ThePool, committed, call.queries[1].query) :
                  Execute(s, call, r, list)

\* handleBulkInsert / handleBulkUpdate / handleBulkDelete: the permission
\* check, then the whole job (bulkInsert and the others hold no await).
BulkCall(s, tool, kind, clientId, statements, outcomes, continueOnError) ==
    /\ calls[s].pc = "idle"
    /\ LET permissions == PermissionsOf(clientId)
           call == NewCall(tool, clientId, permissions, <<>>)
       IN IF ~Permitted(tool, permissions)
          THEN Deny(s, tool, clientId, permissions, <<>>)
          ELSE \E r \in bulkOperation(ThePool, committed, statements, outcomes,
                                      continueOnError) :
                  /\ Len(r.committed) <= MaxCommitted
                  /\ calls' = [calls EXCEPT ![s] =
                                 [Finished(call, IF r.thrown THEN "failed"
                                                 ELSE IF r.success THEN "success"
                                                 ELSE "completed with failures")
                                    EXCEPT !.ran = r.ran, !.borrowed = r.borrowed]]
                  /\ connectionPool' = r.pool.connectionPool
                  /\ activeConnections' = r.pool.activeConnections
                  /\ nextHandle' = r.pool.nextHandle
                  /\ committed' = r.committed
                  /\ UNCHANGED <<secVars, harnVars, clientPermissions, lendVars, limVars>>

HandleBulkInsert(s, clientId, n, outcomes, continueOnError) ==
    BulkCall(s, "sqlite_bulk_insert", "insert", clientId,
             [i \in 1..n |-> BuildInsert(Table, Columns)], outcomes, continueOnError)

HandleBulkUpdate(s, clientId, n, outcomes, continueOnError) ==
    BulkCall(s, "sqlite_bulk_update", "update", clientId,
             [i \in 1..n |-> BuildUpdate(Table, Columns, Where)], outcomes, continueOnError)

HandleBulkDelete(s, clientId, n, outcomes, continueOnError) ==
    BulkCall(s, "sqlite_bulk_delete", "delete", clientId,
             [i \in 1..n |-> BuildDelete(Table, Where)], outcomes, continueOnError)

\* The response is sent; the slot takes the next request.
Respond(s) ==
    /\ calls[s].pc = "done"
    /\ calls' = [calls EXCEPT ![s] = IdleCall]
    /\ UNCHANGED <<secVars, harnVars, clientPermissions, dbVars, limVars>>

setClientPermissions(clientId, permissions) ==
    /\ clientPermissions' =
         [c \in DOMAIN clientPermissions \cup {clientId} |->
            IF c = clientId THEN permissions ELSE clientPermissions[c]]
    /\ UNCHANGED <<secVars, harnVars, calls, dbVars, limVars>>

InitServer ==
    /\ lastIndex = FreshLastIndex
    /\ vin = NotSet
    /\ vout = NotSet
    /\ clientPermissions \in [{"default"} -> GrantChoices]
    /\ calls = [s \in Slots |-> IdleCall]
    /\ \E P \in {Q \in InitialPools : Len(Q.connectionPool) = Len(FullPool.connectionPool)} :
          /\ connectionPool = P.connectionPool
          /\ activeConnections = P.activeConnections
          /\ nextHandle = P.nextHandle
    /\ committed = <<>>
    /\ InitLend
    /\ InitLim

Init == InitServer

Next ==
    \/ \E s \in Slots, c \in ToolCallers, q \in QueryChoices : HandleQuery(s, c, q)
    \/ \E s \in Slots, c \in ToolCallers : HandleInsert(s, c)
    \/ \E s \in Slots, c \in ToolCallers : HandleUpdate(s, c)
    \/ \E s \in Slots, c \in ToolCallers : HandleDelete(s, c)
    \/ \E s \in Slots, c \in ToolCallers, failed \in BOOLEAN : HandleSchema(s, c, failed)
    \/ \E s \in Slots, c \in ToolCallers, failed \in BOOLEAN : HandleTables(s, c, failed)
    \/ \E s \in Slots, c \in ToolCallers, failed \in BOOLEAN : HandleBackup(s, c, failed)
    \/ \E s \in Slots, c \in ToolCallers, b \in BatchChoices : HandleTransaction(s, c, b)
    \/ \E s \in Slots, c \in ToolCallers, n \in 1..MaxRecords, coe \in BOOLEAN :
          \/ \E o \in [1..n -> RecordOutcomes("insert")] : HandleBulkInsert(s, c, n, o, coe)
          \/ \E o \in [1..n -> RecordOutcomes("update")] : HandleBulkUpdate(s, c, n, o, coe)
          \/ \E o \in [1..n -> RecordOutcomes("delete")] : HandleBulkDelete(s, c, n, o, coe)
    \/ \E s \in Slots : ResumeRejected(s)
    \/ \E s \in Slots : ResumeNextValidation(s)
    \/ \E s \in Slots : ResumeExecute(s)
    \/ \E s \in Slots : Respond(s)
    \/ \E c \in Clients, g \in GrantChoices : setClientPermissions(c, g)

Spec == Init /\ [][Next]_vars

(***************************************************************************)
(* validateQuery called directly, as a function of its arguments and of    *)
(* the patterns' lastIndex                                                 *)
(***************************************************************************)
MaxQueryLen == 3
MaxQuotedLen == 6

KeywordLexemes == {"SELECT", "select", "INSERT", "VACUUM", "FROM", "updated_at", "users"}

QuotedLexemes == {SQ, DQ, ";", "users"}

ScopeSets == SUBSET {"read", "list", "create", "utility"} \cup {PermissionType}

ParameterChoices == {Array(<<>>), Array(<<Num("25"), Str("New York")>>), NotAnArray}

\* lastIndex values earlier calls can have left in the patterns.
LastIndexChoices == {[p \in dangerousPatterns |-> x] : x \in {0, 6}}

Arguments(query, parameters, clientPerms) ==
    [query |-> query, parameters |-> parameters, clientPermissions |-> clientPerms]

\* One call of validateQuery with the arguments held in vin.
DirectValidate ==
    /\ vin # NotSet
    /\ vout = NotSet
    /\ LET r == validateQuery(vin.query, vin.parameters, vin.clientPermissions, lastIndex)
       IN /\ vout' = r.result
          /\ lastIndex' = r.lastIndex
    /\ UNCHANGED <<vin, srvVars, dbVars, limVars>>

InitRest ==
    /\ clientPermissions = [c \in {"default"} |-> PermissionType]
    /\ calls = [s \in Slots |-> IdleCall]
    /\ connectionPool = FullPool.connectionPool
    /\ activeConnections = FullPool.activeConnections
    /\ nextHandle = FullPool.nextHandle
    /\ committed = <<>>
    /\ InitLend
    /\ InitLim

InitValidate ==
    /\ lastIndex \in LastIndexChoices
    /\ vin \in {Arguments(q, ps, g) : q \in SeqUpTo(KeywordLexemes, MaxQueryLen),
                                      ps \in ParameterChoices, g \in ScopeSets}
    /\ vout = NotSet
    /\ InitRest

SpecValidate == InitValidate /\ [][DirectValidate]_vars

InitStatements ==
    /\ lastIndex = FreshLastIndex
    /\ vin \in {Arguments(q, Array(<<>>), g) : q \in SeqUpTo(QuotedLexemes, MaxQuotedLen),
                                        g \in {{}, PermissionType}}
    /\ vout = NotSet
    /\ InitRest

SpecStatements == InitStatements /\ [][DirectValidate]_vars

\* validateQuery called again and again on one SecurityManager.
RepeatChoices ==
    {Arguments(r.query, r.parameters, g) :
        r \in QueryChoices \cup {Request(BuildInsert(Table, Columns), <<Str("John")>>),
                                 Request(BuildDelete(Table, Where), <<Num("1")>>),
                                 Request(<<"SELECT", "1", ";">>, <<>>),
                                 Request(<<"SELECT", SQ, "1", SQ>>, <<>>),
                                 Request(<<"SELECT", "1", "--", "users">>, <<>>),
                                 Request(<<"DROP", "TABLE", "users", ";", "--">>, <<>>),
                                 Request(<<"SELECT", DQ, "name", DQ, "FROM", "users">>, <<>>)},
        g \in GrantChoices \cup {{"read"}, {"read", "list"}}}

RepeatedValidate(args) ==
    /\ LET r == validateQuery(args.query, args.parameters, args.clientPermissions, lastIndex)
       IN /\ vin' = args
          /\ vout' = r.result
          /\ lastIndex' = r.lastIndex
    /\ UNCHANGED <<srvVars, dbVars, limVars>>

InitSecurity ==
    /\ lastIndex = FreshLastIndex
    /\ vin = NotSet
    /\ vout = NotSet
    /\ InitRest

NextSecurity == \E args \in RepeatChoices : RepeatedValidate(args)

SpecSecurity == InitSecurity /\ [][NextSecurity]_vars

(***************************************************************************)
(* executeTransaction called directly                                      *)
(***************************************************************************)
MaxBatch == 3

BatchStatements == {ReplaceUsers, Commit, SelectOne}

DirectBatches ==
    {[i \in 1..Len(b) |-> Request(b[i], <<>>)] : b \in SeqUpTo(BatchStatements, MaxBatch)}

DirectTransaction(queries) ==
    /\ \E r \in executeTransaction(ThePool, committed, queries) :
          /\ vin' = [queries |-> queries, before |-> committed]
          /\ vout' = [success |-> r.success, thrown |-> r.thrown]
          /\ connectionPool' = r.pool.connectionPool
          /\ activeConnections' = r.pool.activeConnections
          /\ nextHandle' = r.pool.nextHandle
          /\ committed' = r.committed
    /\ UNCHANGED <<secVars, srvVars, lendVars, limVars>>

InitExecutor ==
    /\ lastIndex = FreshLastIndex
    /\ vin = NotSet
    /\ vout = NotSet
    /\ clientPermissions = [c \in {"default"} |-> PermissionType]
    /\ calls = [s \in Slots |-> IdleCall]
    /\ \E P \in InitialPools :
          /\ connectionPool = P.connectionPool
          /\ activeConnections = P.activeConnections
          /\ nextHandle = P.nextHandle
    /\ committed = <<>>
    /\ InitLend
    /\ InitLim

NextExecutor == \E b \in DirectBatches : DirectTransaction(b)

SpecExecutor == InitExecutor /\ [][NextExecutor]_vars

(***************************************************************************)
(* getConnection / returnConnection / close called by several callers      *)
(***************************************************************************)
\* Handles are opened up to this identity.
MaxHandles == 5

\* One caller's getConnection(), while the manager is open.
Borrow(c) ==
    /\ lent[c] = NoHandle
    /\ db # NoHandle
    /\ \E r \in getConnectionFrom(ThePool, db) :
          /\ r.pool.nextHandle <= MaxHandles + 1
          /\ lent' = [lent EXCEPT ![c] = IF r.ok THEN r.handle ELSE NoHandle]
          /\ connectionPool' = r.pool.connectionPool
          /\ activeConnections' = r.pool.activeConnections
          /\ nextHandle' = r.pool.nextHandle
          /\ vin' = [op |-> "borrow", caller |-> c]
          /\ vout' = [ok |-> r.ok, handle |-> IF r.ok THEN r.handle ELSE NoHandle,
                      idleBefore |-> connectionPool,
                      activeBefore |-> activeConnections]
    /\ UNCHANGED <<secVars, srvVars, committed, db, closed, limVars>>

\* One caller's returnConnection(connection), in its finally block.
Return(c) ==
    /\ lent[c] # NoHandle
    /\ \E P \in returnConnectionTo(ThePool, lent[c], db) :
          /\ lent' = [lent EXCEPT ![c] = NoHandle]
          /\ connectionPool' = P.connectionPool
          /\ activeConnections' = P.activeConnections
          /\ nextHandle' = P.nextHandle
          /\ closed' = IF /\ lent[c] # db
                          /\ Len(connectionPool) >= IdleTarget
                          /\ P.activeConnections # activeConnections
                       THEN closed \cup {lent[c]} ELSE closed
          /\ vin' = [op |-> "return", caller |-> c]
          /\ vout' = [ok |-> TRUE, handle |-> lent[c],
                      idleBefore |-> connectionPool,
                      activeBefore |-> activeConnections]
    /\ UNCHANGED <<secVars, srvVars, committed, db, limVars>>

\* DatabaseManager.close(), called while this.db is open (at shutdown).
Close ==
    /\ db # NoHandle
    /\ \E failAt \in 0..(Len(connectionPool) + 1) :
          LET r == close(ThePool, db, failAt)
          IN /\ connectionPool' = r.pool.connectionPool
             /\ activeConnections' = r.pool.activeConnections
             /\ nextHandle' = r.pool.nextHandle
             /\ db' = r.db
             /\ closed' = closed \cup r.closedNow
             /\ vin' = [op |-> "close", caller |-> 0]
             /\ vout' = [ok |-> r.db = NoHandle, handle |-> NoHandle,
                         idleBefore |-> connectionPool,
                         activeBefore |-> activeConnections]
    /\ UNCHANGED <<secVars, srvVars, committed, lent, limVars>>

\* After initialize(): the pool with the handles that could be opened.
InitLending ==
    /\ lastIndex = FreshLastIndex
    /\ vin = NotSet
    /\ vout = NotSet
    /\ clientPermissions = [c \in {"default"} |-> PermissionType]
    /\ calls = [s \in Slots |-> IdleCall]
    /\ \E P \in InitialPools :
          /\ connectionPool = P.connectionPool
          /\ activeConnections = P.activeConnections
          /\ nextHandle = P.nextHandle
    /\ committed = <<>>
    /\ InitLend
    /\ InitLim

NextLending == \E c \in Callers : Borrow(c) \/ Return(c)

SpecLending == InitLending /\ [][NextLending]_vars

NextPool == NextLending \/ Close

\* After an initialize() that opened every pooled handle.
InitPool == InitLending /\ Len(connectionPool) = Len(FullPool.connectionPool)

SpecPool == InitPool /\ [][NextPool]_vars

(***************************************************************************)
(* bulkInsert / bulkUpdate / bulkDelete called with a job's data, one job   *)
(* on the file and the pool as they stand                                  *)
(***************************************************************************)
MainTable == "orders"

KeyValues == {1, 2}

MainRecords == {[user_id |-> v, total |-> 50] : v \in KeyValues}

RelatedRecordChoices == {[id |-> v, name |-> "John"] : v \in KeyValues}

UserMappings ==
    <<[localColumn |-> "user_id", referencedTable |-> "users", referencedColumn |-> "id"]>>

\* relatedData: nothing; the rows of users under records, with the mapping
\* of orders.user_id to users.id; the rows of users as a bare array.
RelatedDataChoices ==
    {<<>>}
    \cup {<<[tableName |-> "users", shaped |-> TRUE, records |-> recs,
             foreignKeyMappings |-> UserMappings]>> :
            recs \in SeqUpTo(RelatedRecordChoices, MaxRecords) \ {<<>>}}
    \cup {<<[tableName |-> "users", shaped |-> FALSE, records |-> recs]>> :
            recs \in SeqUpTo(RelatedRecordChoices, 1) \ {<<>>}}

\* batchSize: absent, or one record per batch.
BatchSizeChoices == {0, 1}

\* options: insertRelatedData given, or left out.
InsertOptionChoices ==
    {[batchSize |-> b, continueOnError |-> c, insertRelatedData |-> ird] :
        b \in BatchSizeChoices, c \in BOOLEAN, ird \in BOOLEAN}
    \cup {[batchSize |-> b, continueOnError |-> c] : b \in BatchSizeChoices, c \in BOOLEAN}

BulkInsertChoices ==
    {[mainTable |-> MainTable, records |-> recs, relatedData |-> rel, options |-> o] :
        recs \in SeqUpTo(MainRecords, MaxRecords), rel \in RelatedDataChoices,
        o \in InsertOptionChoices}

\* The engine's answer to each related record's insert.
RelatedOutcomes(relatedData) ==
    IF Len(relatedData) = 0 THEN {<<>>}
    ELSE {<<o>> : o \in [1..Len(relatedData[1].records) -> RecordOutcomes("insert")]}

\* The job's outcome is published: the input, the result, the file, the pool.
BulkDone(input, w) ==
    /\ vin' = input
    /\ vout' = IF w.borrowed
               THEN [thrown |-> w.thrown, borrowed |-> TRUE, success |-> w.success,
                     progress |-> w.progress, ran |-> w.ran, handle |-> w.handle,
                     ranOn |-> w.ranOn, poolBefore |-> ThePool]
               ELSE [thrown |-> TRUE, borrowed |-> FALSE]
    /\ committed' = IF w.borrowed THEN w.committed ELSE committed
    /\ connectionPool' = w.pool.connectionPool
    /\ activeConnections' = w.pool.activeConnections
    /\ nextHandle' = w.pool.nextHandle
    /\ UNCHANGED <<secVars, srvVars, lendVars, limVars>>

BulkInsert(data, outcomes, relatedOutcomes) ==
    /\ vin = NotSet
    /\ \E w \in withConnection(ThePool, InsertRun(committed, data, outcomes, relatedOutcomes)) :
          BulkDone([op |-> "insert", n |-> Len(data.records), data |-> data,
                    outcomes |-> outcomes, relatedOutcomes |-> relatedOutcomes,
                    continueOnError |-> data.options.continueOnError,
                    before |-> committed], w)

\* bulkUpdate: one UPDATE per entry of data.updates.
BulkUpdate(n, outcomes, continueOnError, batchSize) ==
    /\ vin = NotSet
    /\ LET items == [i \in 1..n |-> [table |-> Table, row |-> [id |-> i, name |-> "Jane"],
                                     statement |-> BuildUpdate(Table, Columns, Where)]]
       IN \E w \in withConnection(ThePool,
                     BulkRunFrom(committed, items, outcomes, continueOnError,
                                 BatchSizeOf(batchSize), NewJob(n, BatchSizeOf(batchSize)))) :
             BulkDone([op |-> "update", n |-> n, items |-> items, outcomes |-> outcomes,
                       continueOnError |-> continueOnError, before |-> committed], w)

\* bulkDelete without cascade: one DELETE per entry of data.conditions.
BulkDelete(n, outcomes, continueOnError, batchSize) ==
    /\ vin = NotSet
    /\ LET items == [i \in 1..n |-> [table |-> Table, row |-> [id |-> i],
                                     statement |-> BuildDelete(Table, Where)]]
       IN \E w \in withConnection(ThePool,
                     BulkRunFrom(committed, items, outcomes, continueOnError,
                                 BatchSizeOf(batchSize), NewJob(n, BatchSizeOf(batchSize)))) :
             BulkDone([op |-> "delete", n |-> n, items |-> items, outcomes |-> outcomes,
                       continueOnError |-> continueOnError, before |-> committed], w)

InitBulk ==
    /\ lastIndex = FreshLastIndex
    /\ vin = NotSet
    /\ vout = NotSet
    /\ clientPermissions = [c \in {"default"} |-> PermissionType]
    /\ calls = [s \in Slots |-> IdleCall]
    /\ \E P \in InitialPools :
          /\ connectionPool = P.connectionPool
          /\ activeConnections = P.activeConnections
          /\ nextHandle = P.nextHandle
    /\ committed \in {<<>>, <<[table |-> Table, row |-> [id |-> 1, name |-> "John"]]>>}
    /\ InitLend
    /\ InitLim

NextBulk ==
    \/ \E data \in BulkInsertChoices :
          \E outcomes \in [1..Len(data.records) -> RecordOutcomes("insert")],
             relatedOutcomes \in RelatedOutcomes(data.relatedData) :
                BulkInsert(data, outcomes, relatedOutcomes)
    \/ \E n \in 0..MaxRecords, continueOnError \in BOOLEAN, batchSize \in BatchSizeChoices :
          \E outcomes \in [1..n -> RecordOutcomes("update")] :
             BulkUpdate(n, outcomes, continueOnError, batchSize)
    \/ \E n \in 0..MaxRecords, continueOnError \in BOOLEAN, batchSize \in BatchSizeChoices :
          \E outcomes \in [1..n -> RecordOutcomes("delete")] :
             BulkDelete(n, outcomes, continueOnError, batchSize)

SpecBulk == InitBulk /\ [][NextBulk]_vars

(***************************************************************************)
(* bulkDelete on users, with posts.user_id REFERENCES users(id)            *)
(***************************************************************************)
UserRows == {[id |-> v] : v \in KeyValues}

PostRows == {[id |-> i, user_id |-> u] : i \in KeyValues, u \in KeyValues}

\* The databases the engine can hold: post ids are unique and every post
\* refers to a user.
Databases ==
    {[users |-> U, posts |-> P] : U \in SUBSET UserRows, P \in SUBSET PostRows} \cap
    {D \in [users : SUBSET UserRows, posts : SUBSET PostRows] :
        /\ \A p, q \in D.posts : p.id = q.id => p = q
        /\ \A p \in D.posts : \E u \in D.users : u.id = p.user_id}

\* options: cascadeDelete given, or left out.
DeleteOptionChoices ==
    {[batchSize |-> b, continueOnError |-> c, cascadeDelete |-> cd] :
        b \in BatchSizeChoices, c \in BOOLEAN, cd \in BOOLEAN}
    \cup {[batchSize |-> b, continueOnError |-> c] : b \in BatchSizeChoices, c \in BOOLEAN}

BulkDeleteChoices ==
    {[table |-> "users", conditions |-> conds, options |-> o] :
        conds \in SeqUpTo(UserRows, MaxRecords), o \in DeleteOptionChoices}

\* bulkDelete with its foreign key discovery and cascade deletes.
BulkDeleteCascade(data) ==
    /\ vin = NotSet
    /\ LET r == DeleteRun(committed, data)
       IN \E w \in withConnection(ThePool, r) :
             /\ vin' = [op |-> "delete", n |-> Len(data.conditions), data |-> data,
                        continueOnError |-> BoolOption(data.options, "continueOnError"),
                        outcomes |-> r.outcomes, before |-> committed]
             /\ vout' = IF w.borrowed
                        THEN [thrown |-> w.thrown, borrowed |-> TRUE, success |-> w.success,
                              progress |-> w.progress, ran |-> w.ran]
                        ELSE [thrown |-> TRUE, borrowed |-> FALSE]
             /\ committed' = IF w.borrowed THEN w.committed ELSE committed
             /\ connectionPool' = w.pool.connectionPool
             /\ activeConnections' = w.pool.activeConnections
             /\ nextHandle' = w.pool.nextHandle
             /\ UNCHANGED <<secVars, srvVars, lendVars, limVars>>

InitCascade ==
    /\ lastIndex = FreshLastIndex
    /\ vin = NotSet
    /\ vout = NotSet
    /\ clientPermissions = [c \in {"default"} |-> PermissionType]
    /\ calls = [s \in Slots |-> IdleCall]
    /\ \E P \in InitialPools :
          /\ connectionPool = P.connectionPool
          /\ activeConnections = P.activeConnections
          /\ nextHandle = P.nextHandle
    /\ committed \in Databases
    /\ InitLend
    /\ InitLim

NextCascade == \E data \in BulkDeleteChoices : BulkDeleteCascade(data)

SpecCascade == InitCascade /\ [][NextCascade]_vars

(***************************************************************************)
(* SecurityManager.checkRateLimit / cleanupRateLimitData (security 279-312) *)
(***************************************************************************)
\* const windowStart = now - 60000
RateWindow == 60000

\* const cutoff = now - 120000
CleanupAge == 120000

\* maxRequestsPerMinute, the ceiling the callers of checkRateLimit pass.
RateCeiling == 2

\* checkRateLimit starting a new window already at 60000 ms after the first
\* request of the old one.
checkRateLimitEarlyReset(map, clientId, maxRequestsPerMinute, t) ==
    LET windowStart == t - RateWindow
        clientData == map[clientId]
    IN IF clientData = NotSet
       THEN [map |-> [map EXCEPT ![clientId] = [count |-> 1, resetTime |-> t]],
             admitted |-> TRUE]
       ELSE IF clientData.resetTime <= windowStart
       THEN [map |-> [map EXCEPT ![clientId] = [count |-> 1, resetTime |-> t]],
             admitted |-> TRUE]
       ELSE IF clientData.count >= maxRequestsPerMinute
       THEN [map |-> map, admitted |-> FALSE]
       ELSE [map |-> [map EXCEPT ![clientId].count = @ + 1], admitted |-> TRUE]

\* checkRateLimit(clientId, maxRequestsPerMinute) at Date.now() = t.
checkRateLimit(map, clientId, maxRequestsPerMinute, t) ==
    LET windowStart == t - RateWindow
        clientData == map[clientId]
    IN IF clientData = NotSet
       THEN [map |-> [map EXCEPT ![clientId] = [count |-> 1, resetTime |-> t]],
             admitted |-> TRUE]
       ELSE IF clientData.resetTime < windowStart
       THEN [map |-> [map EXCEPT ![clientId] = [count |-> 1, resetTime |-> t]],
             admitted |-> TRUE]
       ELSE IF clientData.count >= maxRequestsPerMinute
       THEN [map |-> map, admitted |-> FALSE]
       ELSE [map |-> [map EXCEPT ![clientId].count = @ + 1], admitted |-> TRUE]

\* cleanupRateLimitData discarding every entry of an earlier instant.
cleanupRateLimitDataEager(map, t) ==
    [c \in DOMAIN map |->
        IF map[c] = NotSet THEN NotSet
        ELSE IF map[c].resetTime < t THEN NotSet
        ELSE map[c]]

\* cleanupRateLimitData() at Date.now() = t.
cleanupRateLimitData(map, t) ==
    [c \in DOMAIN map |->
        IF map[c] = NotSet THEN NotSet
        ELSE IF map[c].resetTime < t - CleanupAge THEN NotSet
        ELSE map[c]]

\* The clock is read at these instants: up to MaxWindows windows after the
\* start, and one millisecond after each.
MaxWindows == 2

Instants == {k * RateWindow + e : k \in 0..MaxWindows, e \in {0, 1}}

\* Time passes.
Tick(t) ==
    /\ t > now
    /\ now' = t
    /\ UNCHANGED <<secVars, harnVars, srvVars, dbVars, rateLimitMap, auditLogs, job>>

\* The requests seen so far, per caller: the time and the answer of each.
RequestLog == IF vout = NotSet THEN [c \in CallerIds |-> <<>>] ELSE vout.log

\* One admission check of a caller's request.
CheckRateLimit(clientId) ==
    LET r == checkRateLimit(rateLimitMap, clientId, RateCeiling, now)
    IN /\ rateLimitMap' = r.map
       /\ vin' = [op |-> "checkRateLimit", clientId |-> clientId, now |-> now,
                  before |-> rateLimitMap[clientId]]
       /\ vout' = [admitted |-> r.admitted,
                   log |-> [RequestLog EXCEPT ![clientId] =
                              Append(@, [time |-> now, admitted |-> r.admitted])]]
       /\ UNCHANGED <<secVars, srvVars, dbVars, auditLogs, now, job>>

CleanupRateLimitData ==
    /\ rateLimitMap' = cleanupRateLimitData(rateLimitMap, now)
    /\ vin' = [op |-> "cleanupRateLimitData", now |-> now, before |-> rateLimitMap]
    /\ UNCHANGED <<secVars, vout, srvVars, dbVars, auditLogs, now, job>>

\* A caller sends at most this many requests.
MaxRequests == 4

InitRate == InitPool

NextRate ==
    \/ \E clientId \in CallerIds :
          /\ Len(RequestLog[clientId]) < MaxRequests
          /\ CheckRateLimit(clientId)
    \/ CleanupRateLimitData
    \/ \E t \in Instants : Tick(t)

SpecRate == InitRate /\ [][NextRate]_vars

(***************************************************************************)
(* SecurityManager.logAudit / getAuditLogs (security 237-267)              *)
(***************************************************************************)
\* if (this.auditLogs.length > 10000): the ceiling, scaled down.
AuditCeiling == 4

\* this.auditLogs.slice(-5000): the entries kept, scaled down.
AuditKeep == 2

\* limit: number = 100
DefaultLimit == 100

\* logs.slice(-k)
Last(logs, k) == SubSeq(logs, Max({1, Len(logs) - k + 1}), Len(logs))

\* logs.slice(0, limit)
First(logs, limit) == SubSeq(logs, 1, Min({limit, Len(logs)}))

\* logAudit(entry) at Date.now() = t, with logId standing for randomUUID().
logAudit(logs, entry, logId, t) ==
    LET pushed == Append(logs, [logId |-> logId, clientId |-> entry.clientId,
                                status |-> entry.status, executedAt |-> t])
    IN IF Len(pushed) > AuditCeiling THEN Last(pushed, AuditKeep) ELSE pushed

RECURSIVE InsertDesc(_, _)
\* e placed in the descending array after every entry that is not older.
InsertDesc(sorted, e) ==
    IF Len(sorted) = 0 THEN <<e>>
    ELSE IF Head(sorted).executedAt >= e.executedAt
    THEN <<Head(sorted)>> \o InsertDesc(Tail(sorted), e)
    ELSE <<e>> \o sorted

RECURSIVE SortDesc(_, _)
\* logs.sort((a, b) => b.executedAt.getTime() - a.executedAt.getTime()):
\* newest first, entries of the same instant in their former order.
SortDesc(logs, sorted) ==
    IF Len(logs) = 0 THEN sorted
    ELSE SortDesc(Tail(logs), InsertDesc(sorted, Head(logs)))

\* getAuditLogs(clientId, limit): with a clientId the filtered copy is
\* sorted; without one, logs is this.auditLogs itself and sort() reorders it
\* in place.
getAuditLogs(logs, clientId, limit) ==
    IF clientId # None
    THEN [logs |-> logs,
          returned |-> First(SortDesc(SelectSeq(logs, LAMBDA e : e.clientId = clientId),
                                      <<>>), limit)]
    ELSE [logs |-> SortDesc(logs, <<>>),
          returned |-> First(SortDesc(logs, <<>>), limit)]

\* At most this many entries are appended.
MaxAppends == 5

\* The entries appended so far, in the order of their appending.
Appended == IF vout = NotSet THEN <<>> ELSE vout.appended

AuditEntryChoices == {[clientId |-> c, status |-> "success"] : c \in CallerIds}

LogAudit(entry) ==
    /\ Len(Appended) < MaxAppends
    /\ LET logId == Len(Appended) + 1
       IN /\ auditLogs' = logAudit(auditLogs, entry, logId, now)
          /\ vin' = [op |-> "logAudit", entry |-> entry, before |-> auditLogs]
          /\ vout' = [appended |-> Append(Appended, logId), returned |-> <<>>]
    /\ UNCHANGED <<secVars, srvVars, dbVars, rateLimitMap, now, job>>

GetAuditLogs(clientId, limit) ==
    LET r == getAuditLogs(auditLogs, clientId, limit)
    IN /\ auditLogs' = r.logs
       /\ vin' = [op |-> "getAuditLogs", clientId |-> clientId, limit |-> limit,
                  before |-> auditLogs]
       /\ vout' = [appended |-> Appended, returned |-> r.returned]
       /\ UNCHANGED <<secVars, srvVars, dbVars, rateLimitMap, now, job>>

InitAudit == InitPool

NextAudit ==
    \/ \E entry \in AuditEntryChoices : LogAudit(entry)
    \/ \E clientId \in {None, "default"} : GetAuditLogs(clientId, DefaultLimit)
    \/ \E t \in Instants : Tick(t)

SpecAudit == InitAudit /\ [][NextAudit]_vars

(***************************************************************************)
(* The batch loop of a bulk job, pass by pass (database 619-670, 727-780,  *)
(* 850-912)                                                                *)
(***************************************************************************)
\* The magnitude beyond which adding to a number no longer changes it
\* (2^53 for the numbers of the language), scaled down.
MaxSafe == 1003

\* a + b on numbers.
AddNumber(a, b) == Max({0 - MaxSafe, Min({MaxSafe, a + b})})

\* Math.ceil(n / batchSize) for a batch size of either sign.
CeilNumber(n, batchSize) ==
    IF batchSize > 0 THEN Ceil(n, batchSize) ELSE 0 - (n \div (0 - batchSize))

\* An index argument of slice() on an array of n entries: a negative index
\* counts from the end, and both ends are clamped to the array.
SliceIndex(n, k) == IF k < 0 THEN Max({n + k, 0}) ELSE Min({k, n})

\* records.slice(i, i + batchSize).length
SliceLen(n, i, batchSize) ==
    Max({SliceIndex(n, i + batchSize) - SliceIndex(n, i), 0})

\* The job when the transaction function reaches the batch loop: let i = 0.
StartOfLoop(items, outcomes, continueOnError, batchSize) ==
    [items |-> items, outcomes |-> outcomes, continueOnError |-> continueOnError,
     batchSize |-> batchSize, i |-> 0, status |-> "running",
     st |-> [NewJob(Len(items), 1) EXCEPT
               !.progress.totalBatches = CeilNumber(Len(items), batchSize)]]

\* One pass of for (let i = 0; i < n; i += batchSize): the batch is sliced,
\* currentBatch++, the records of the batch are processed, i += batchSize.
\* A throw leaves the loop and the transaction function.
PassOf(q) ==
    LET st == RecordLoop(q.items, q.outcomes, q.continueOnError, q.i,
                         SliceLen(Len(q.items), q.i, q.batchSize), 0,
                         [q.st EXCEPT !.progress.currentBatch = AddNumber(@, 1)])
    IN IF st.thrown
       THEN [q EXCEPT !.st = st, !.status = "aborted"]
       ELSE [q EXCEPT !.st = st, !.i = AddNumber(q.i, q.batchSize)]

\* The loop condition i < data.records.length.
LoopGoesOn(q) == q.status = "running" /\ q.i < Len(q.items)

LoopBatchSizes == {-1, 0, 1, 2}

\* A bulk job starts: batchSize = data.options?.batchSize || 1000.
StartJob(n, outcomes, continueOnError, batchSize) ==
    /\ job = NotSet
    /\ LET items == [k \in 1..n |-> [table |-> Table, row |-> [id |-> k],
                                     statement |-> BuildDelete(Table, Where)]]
       IN job' = StartOfLoop(items, outcomes, continueOnError, BatchSizeOf(batchSize))
    /\ vin' = [op |-> "delete", n |-> n, batchSize |-> batchSize]
    /\ UNCHANGED <<secVars, srvVars, dbVars, vout, rateLimitMap, auditLogs, now>>

BatchPass ==
    /\ job # NotSet
    /\ LoopGoesOn(job)
    /\ job' = PassOf(job)
    /\ UNCHANGED <<secVars, srvVars, dbVars, vin, vout, rateLimitMap, auditLogs, now>>

\* The loop is left with i >= n: the transaction commits and the call
\* returns its result.
EndJob ==
    /\ job # NotSet
    /\ job.status = "running"
    /\ ~LoopGoesOn(job)
    /\ job' = [job EXCEPT !.status = "done"]
    /\ vout' = FinishJob(committed, job.st, job.continueOnError)
    /\ UNCHANGED <<secVars, srvVars, dbVars, vin, rateLimitMap, auditLogs, now>>

InitLoop == InitPool

NextLoop ==
    \/ \E n \in 0..MaxRecords, c \in BOOLEAN, b \in LoopBatchSizes :
         \E outcomes \in [1..n -> RecordOutcomes("delete")] : StartJob(n, outcomes, c, b)
    \/ BatchPass
    \/ EndJob

SpecLoop == InitLoop /\ [][NextLoop]_vars

(***************************************************************************)
(* One sqlite_query call from executeQuery to the response (database       *)
(* 241-311, part_005 43-70, 380-397)                                       *)
(***************************************************************************)
\* if (!result.success) throw new Error(result.error || 'Query execution failed')
handleQueryOutcome(result) ==
    IF ~result.success
    THEN [thrown |-> TRUE,
          message |-> IF result.error # "" THEN result.error
                      ELSE "Query execution failed"]
    ELSE [thrown |-> FALSE, message |-> None]

\* The response of the CallToolRequest handler: the handler's content, or,
\* from the catch block, `Error executing tool ${name}: ${error.message}`
\* with isError: true.
CallToolResponse(name, h) ==
    IF h.thrown
    THEN [isError |-> TRUE, text |-> <<"Error executing tool ", name, ": ", h.message>>]
    ELSE [isError |-> FALSE, text |-> <<"success">>]

\* The messages the engine's errors carry.
EngineMessages == {"no such table: users", "UNIQUE constraint failed: users.id", ""}

\* executeQuery is entered at now and left at t; message is what the engine
\* says if it rejects the statement.
DirectQuery(query, message, t) ==
    /\ t >= now
    /\ \E r \in executeQuery(ThePool, committed, query) :
          LET result == QueryResult(r.success, message, t - now)
          IN /\ vin' = [op |-> "executeQuery", query |-> query, message |-> message,
                        startTime |-> now, before |-> committed, poolBefore |-> ThePool]
             /\ vout' = IF r.thrown
                        THEN [thrown |-> TRUE, handle |-> r.handle, ran |-> r.ran]
                        ELSE [thrown |-> FALSE, handle |-> r.handle, ran |-> r.ran,
                              result |-> result,
                              response |-> CallToolResponse("sqlite_query",
                                                            handleQueryOutcome(result))]
             /\ connectionPool' = r.pool.connectionPool
             /\ activeConnections' = r.pool.activeConnections
             /\ nextHandle' = r.pool.nextHandle
             /\ committed' = r.committed
    /\ now' = t
    /\ UNCHANGED <<secVars, srvVars, lendVars, rateLimitMap, auditLogs, job>>

InitQuery == InitExecutor

NextQuery ==
    \E q \in BatchStatements, m \in EngineMessages, t \in Instants : DirectQuery(q, m, t)

SpecQuery == InitQuery /\ [][NextQuery]_vars

(***************************************************************************)
(* Properties                                                              *)
(***************************************************************************)
Started(s) == calls[s].pc # "idle"

HasError(result, msg) == \E i \in 1..Len(result.errors) : result.errors[i].msg = msg

\* The scopes a statement requires, as validateQuery computes them.
RequiredFor(query) == getRequiredPermissions(detectSQLOperations(Normalize(query)))

\* C1: every statement the Executor or the Bulk Engine ran for a tool call
\* had obtained isValid = true from validateQuery in that call.
C1_RanOnlyValidated ==
    \A s \in Slots : Range(calls[s].ran) \subseteq calls[s].passed

StaticMapping(keyword) ==
    CASE keyword = "SELECT" -> {"read", "list"}
      [] keyword = "INSERT" -> {"create"}
      [] keyword = "UPDATE" -> {"update"}
      [] keyword = "DELETE" -> {"delete"}
      [] keyword \in {"CREATE", "ALTER", "DROP", "TRUNCATE"} -> {"ddl"}
      [] keyword \in {"BEGIN", "COMMIT", "ROLLBACK", "SAVEPOINT"} -> {"transaction"}
      [] keyword \in {"VACUUM", "ANALYZE", "REINDEX", "PRAGMA", "ATTACH", "DETACH"} ->
            {"utility"}
      [] OTHER -> {}

WellFormedStatements ==
    {SelectUsers, BuildInsert(Table, Columns), BuildUpdate(Table, Columns, Where),
     BuildDelete(Table, Where)}

\* C4: a well-formed parameterized statement from a caller that holds every
\* scope it requires is valid, with no error, and is executed.
C4_WellFormedAccepted ==
    \A s \in Slots :
        (/\ Started(s)
         /\ calls[s].tool \in {"sqlite_query", "sqlite_insert", "sqlite_update",
                               "sqlite_delete"}
         /\ calls[s].validation # NotSet
         /\ calls[s].queries[1].query \in WellFormedStatements
         /\ RequiredFor(calls[s].queries[1].query) \subseteq calls[s].permissions)
        => /\ calls[s].validation.isValid
           /\ calls[s].validation.errors = <<>>
           /\ calls[s].pc = "done" => calls[s].borrowed

RECURSIVE TerminatorsFrom(_, _, _)
\* The semicolons of q from position i on that lie outside string literals
\* and quoted identifiers; mode is the quote that is open at i ("" for none).
TerminatorsFrom(q, i, mode) ==
    IF i > Len(q) THEN 0
    ELSE IF mode = "" THEN
           IF q[i] \in {SQ, DQ} THEN TerminatorsFrom(q, i + 1, q[i])
           ELSE (IF q[i] = ";" THEN 1 ELSE 0) + TerminatorsFrom(q, i + 1, "")
    ELSE TerminatorsFrom(q, i + 1, IF q[i] = mode THEN "" ELSE mode)

TopLevelTerminators(q) == TerminatorsFrom(q, 1, "")

\* C5: a statement with more than one top-level terminator outside string
\* literals is rejected with "Multiple statements not allowed", whatever the
\* caller's scopes.
C5_MultipleStatementsRejected ==
    (vout # NotSet /\ TopLevelTerminators(vin.query) > 1) =>
        /\ ~vout.isValid
        /\ HasError(vout, "Multiple statements not allowed")

\* C6: two calls of validateQuery with the same arguments return the same
\* isValid and the same errors.
C6_SameArgumentsSameResult ==
    [][(vin # NotSet /\ vin' = vin) =>
          (vout'.isValid = vout.isValid /\ vout'.errors = vout.errors)]_vars

\* The scope the README documents for each tool.
DocumentedScope(tool) ==
    CASE tool = "sqlite_query" -> "read"
      [] tool \in {"sqlite_insert", "sqlite_bulk_insert"} -> "create"
      [] tool \in {"sqlite_update", "sqlite_bulk_update"} -> "update"
      [] tool \in {"sqlite_delete", "sqlite_bulk_delete"} -> "delete"
      [] tool \in {"sqlite_schema", "sqlite_tables"} -> "list"
      [] tool = "sqlite_transaction" -> "transaction"
      [] tool = "sqlite_backup" -> "utility"

\* C7: a tool call from a caller without the tool's documented scope ends at
\* once with the insufficient-permissions error: nothing is validated, no
\* handle is borrowed, the pool and the database are as before.
C7_DocumentedScopeRequired ==
    [][\A s \in Slots :
          (/\ calls[s].pc = "idle"
           /\ calls'[s].pc # "idle"
           /\ DocumentedScope(calls'[s].tool) \notin calls'[s].permissions)
          => /\ calls'[s].pc = "done"
             /\ calls'[s].outcome = "Insufficient permissions"
             /\ calls'[s].validation = NotSet
             /\ ~calls'[s].borrowed
             /\ UNCHANGED <<lastIndex, dbVars>>]_vars

\* C8: sqlite_transaction hands its batch to the executor only when the
\* caller holds transaction and every statement of the batch was accepted by
\* validateQuery against the caller's scopes (so the scopes contain what each
\* statement requires); a call that a validation rejected runs nothing.
C8_TransactionValidatedBeforeRun ==
    \A s \in Slots :
        calls[s].tool = "sqlite_transaction" =>
            /\ calls[s].borrowed =>
                  /\ "transaction" \in calls[s].permissions
                  /\ \A i \in 1..Len(calls[s].queries) :
                        /\ calls[s].queries[i].query \in calls[s].passed
                        /\ RequiredFor(calls[s].queries[i].query)
                              \subseteq calls[s].permissions
            /\ calls[s].outcome = "validation failed" =>
                  /\ ~calls[s].borrowed
                  /\ calls[s].ran = <<>>
            /\ (calls[s].pc = "awaitValidation" /\ ~calls[s].validation.isValid) =>
                  /\ ~calls[s].borrowed
                  /\ calls[s].ran = <<>>

\* A batch of three statements, all accepted for a caller that holds
\* transaction, handed to the executor.
C8_Witness ==
    \E s \in Slots :
        /\ calls[s].tool = "sqlite_transaction"
        /\ calls[s].borrowed
        /\ "transaction" \in calls[s].permissions
        /\ Len(calls[s].queries) = 3
        /\ calls[s].ran = <<ReplaceUsers, Commit, SelectOne>>
        /\ Range(calls[s].ran) \subseteq calls[s].passed

\* The writes of a list of requests, in list order.
WritesOf(queries) ==
    SelectSeq([i \in 1..Len(queries) |-> queries[i].query], IsWrite)

\* C9: executeTransaction is all-or-nothing: a failed call leaves the file
\* as it was, a successful one has added the writes of the list, in order.
C9_AllOrNothing ==
    vout # NotSet =>
        IF vout.success
        THEN committed = vin.before \o WritesOf(vin.queries)
        ELSE committed = vin.before

\* C10: a statement runs only while the caller's scopes, as they are when it
\* runs, hold what the tool and the statements require.
C10_ScopesCurrentAtExecution ==
    [][\A s \in Slots :
          (~calls[s].borrowed /\ calls'[s].borrowed) =>
             /\ Permitted(calls'[s].tool, PermissionsOf(calls'[s].clientId))
             /\ \A i \in 1..Len(calls'[s].queries) :
                   RequiredFor(calls'[s].queries[i].query)
                      \subseteq PermissionsOf(calls'[s].clientId)]_vars

\* The last call on the pool was op.
LastOp(op) == vin # NotSet /\ vin.op = op

\* C11: idle + active <= maxConnections in every state, so the total the
\* stats report (idle + active + 1) never exceeds maxConnections + 1.
C11_PoolBounded ==
    /\ Len(connectionPool) + activeConnections <= maxConnections
    /\ getConnectionPoolStats(ThePool).totalConnections <= maxConnections + 1

\* The pool is exhausted (idle + active = maxConnections, nothing idle) and
\* the last borrow was answered with the primary handle.
C11_Witness ==
    /\ LastOp("borrow")
    /\ vout.handle = Primary
    /\ connectionPool = <<>>
    /\ Len(connectionPool) + activeConnections = maxConnections

\* C12: the primary handle is never on the idle list, and only close()
\* closes it.
C12_PrimaryNeverPooled ==
    [][/\ \A i \in 1..Len(connectionPool') : connectionPool'[i] # Primary
       /\ (Primary \in closed' /\ Primary \notin closed) => vin'.op = "close"]_vars

\* C13: a non-primary handle is held by at most one caller, and no handle
\* that a caller holds is on the idle list.
C13_NoDoubleLending ==
    /\ \A c1, c2 \in Callers :
          (c1 # c2 /\ lent[c1] # NoHandle /\ lent[c1] = lent[c2]) => lent[c1] = Primary
    /\ \A c \in Callers :
          lent[c] # NoHandle => \A i \in 1..Len(connectionPool) : connectionPool[i] # lent[c]

\* Two callers hold the primary handle while a third holds a pooled one.
C13_Witness ==
    \E c1, c2, c3 \in Callers :
        /\ c1 # c2
        /\ lent[c1] = Primary
        /\ lent[c2] = Primary
        /\ lent[c3] \notin {Primary, NoHandle}

\* C14: a successful borrow of a pooled handle (popped from the idle list or
\* newly opened) increments active by one; a borrow answered with the
\* primary handle leaves active as it was.
C14_BorrowCountsPooledHandles ==
    (LastOp("borrow") /\ vout.ok) =>
        activeConnections =
            vout.activeBefore + (IF vout.handle = Primary THEN 0 ELSE 1)

\* C14 as stated: every successful borrow increments active by one.
C14_EveryBorrowIncrements ==
    (LastOp("borrow") /\ vout.ok) => activeConnections = vout.activeBefore + 1

\* The primary handle was lent, and a newly opened handle before it.
C14_Witness ==
    /\ LastOp("borrow")
    /\ vout.ok
    /\ vout.handle = Primary
    /\ activeConnections = vout.activeBefore
    /\ \E c \in Callers : lent[c] > IdleTarget

\* C15: returning the primary handle changes neither the idle list nor
\* active; returning another handle decrements active by one and either
\* appends the handle to the idle list (fewer than 3 idle) or closes it.
C15_ReturnEffect ==
    LastOp("return") =>
        IF vout.handle = Primary
        THEN connectionPool = vout.idleBefore /\ activeConnections = vout.activeBefore
        ELSE /\ activeConnections = vout.activeBefore - 1
             /\ IF Len(vout.idleBefore) < IdleTarget
                THEN connectionPool = Append(vout.idleBefore, vout.handle)
                ELSE connectionPool = vout.idleBefore /\ vout.handle \in closed

\* A bulk job was called, and borrowed its handle.
BulkCalled == vin # NotSet /\ vout.borrowed

\* The job completed by returning a result (Done).
BulkReturned == BulkCalled /\ ~vout.thrown

\* The 0-based positions of the records whose statement did not change rows.
FailingIndexes(outcomes) == {i - 1 : i \in {k \in DOMAIN outcomes : outcomes[k] # "ok"}}

RECURSIVE Ascending(_)
\* The members of a set of numbers as a sequence in increasing order.
Ascending(S) == IF S = {} THEN <<>> ELSE <<Min(S)>> \o Ascending(S \ {Min(S)})

\* C16: with continueOnError = false, a job in which a record fails (the
\* engine throws, or an update or delete changes no row) is aborted and
\* leaves the file as it was before the job.
C16_FirstFailureRollsBack ==
    (BulkCalled /\ ~vin.continueOnError /\ FailingIndexes(vin.outcomes) # {})
        => (vout.thrown /\ committed = vin.before)

\* C17: a bulk insert, update or delete that returns a result has
\* processedRecords = successfulRecords + failedRecords and
\* processedRecords = totalRecords, the number of records it was given.
C17_AccountingAtDone ==
    BulkReturned =>
        /\ vout.progress.processedRecords
             = vout.progress.successfulRecords + vout.progress.failedRecords
        /\ vout.progress.processedRecords = vout.progress.totalRecords
        /\ vout.progress.totalRecords = vin.n

C17_Witness ==
    /\ BulkReturned
    /\ vin.n = MaxRecords
    /\ vout.progress.totalBatches = MaxRecords
    /\ vout.progress.successfulRecords > 0
    /\ vout.progress.failedRecords > 0

\* The job reached its loop over the main records: it is no insert whose
\* related data is given as bare arrays.
MainLoopEntered ==
    vin.op = "insert" /\ BoolOption(vin.data.options, "insertRelatedData")
        => \A t \in DOMAIN vin.data.relatedData : vin.data.relatedData[t].shaped

\* The errors recorded for main records, in the order they were appended.
MainErrors == SelectSeq(vout.progress.errors, LAMBDA e : e.recordIndex >= 0)

C19_SuccessFlag ==
    BulkReturned =>
        vout.success = (vout.progress.failedRecords = 0 \/ vin.continueOnError)

C19_Witness ==
    /\ BulkReturned
    /\ ~vin.continueOnError
    /\ vout.progress.failedRecords > 0
    /\ ~vout.success

RECURSIVE RelatedRows(_, _)
\* The rows of every related table of a job, table after table from t on.
RelatedRows(relatedData, t) ==
    IF t > Len(relatedData) THEN <<>>
    ELSE [k \in DOMAIN relatedData[t].records |->
            [table |-> relatedData[t].tableName, row |-> relatedData[t].records[k]]]
         \o RelatedRows(relatedData, t + 1)

\* C20: a bulk insert with insertRelatedData = true whose statements the
\* engine all accepts inserts every related row before the first main row,
\* in the same transaction, and each main record's user_id that equals the
\* id of a related row is replaced by the rowid generated for such a row.
C20_RelatedFirstThenRemapped ==
    (/\ BulkCalled
     /\ vin.op = "insert"
     /\ BoolOption(vin.data.options, "insertRelatedData")
     /\ vin.data.relatedData # <<>>
     /\ FailingIndexes(vin.outcomes) = {}
     /\ \A t \in DOMAIN vin.relatedOutcomes : FailingIndexes(vin.relatedOutcomes[t]) = {})
    => LET related == RelatedRows(vin.data.relatedData, 1)
           n == Len(related)
       IN /\ ~vout.thrown
          /\ Len(vout.ran) = n + vin.n
          /\ SubSeq(vout.ran, 1, n) = related
          /\ committed = vin.before \o vout.ran
          /\ \A i \in 1..vin.n :
                LET record == vin.data.records[i]
                    row == vout.ran[n + i].row
                    ids == {FirstRowid + k - 1 :
                              k \in {x \in 1..n : related[x].row.id = record.user_id}}
                IN /\ vout.ran[n + i].table = vin.data.mainTable
                   /\ row.total = record.total
                   /\ IF ids = {} THEN row.user_id = record.user_id
                      ELSE row.user_id \in ids

\* C21: a bulk delete on users with cascadeDelete = true removes, for each
\* condition that matches a user, the posts that refer to that user before
\* it deletes the user, in the same transaction: the job is not aborted,
\* the user is deleted, no post refers to it any more, and the deletes on
\* posts come before the delete on users.
C21_DependentsRemovedFirst ==
    (/\ BulkCalled
     /\ vin.op = "delete"
     /\ "data" \in DOMAIN vin
     /\ BoolOption(vin.data.options, "cascadeDelete"))
    => \A k \in 1..vin.n :
          LET v == vin.data.conditions[k].id
          IN (\E u \in vin.before.users : u.id = v) =>
                /\ ~vout.thrown
                /\ ~\E u \in committed.users : u.id = v
                /\ ~\E p \in committed.posts : p.user_id = v
                /\ \E a, b \in DOMAIN vout.ran :
                      /\ a < b
                      /\ vout.ran[a] = DeleteStatement("posts", v)
                      /\ vout.ran[b] = DeleteStatement("users", v)

\* C22: a tool call that has started validating or executing went through
\* checkRateLimit first: the limiter holds an entry for its caller.
C22_AdmittedBeforeValidation ==
    \A s \in Slots : Started(s) => rateLimitMap[calls[s].clientId] # NotSet

\* C25: a tool call that has completed, failed or been denied has an audit
\* record of its caller with status success, error or denied.
C25_EveryCallAudited ==
    \A s \in Slots :
        calls[s].pc = "done" =>
            \E i \in DOMAIN auditLogs :
                /\ auditLogs[i].clientId = calls[s].clientId
                /\ auditLogs[i].status =
                     (IF calls[s].outcome = "success" THEN "success"
                      ELSE IF calls[s].outcome = "Insufficient permissions" THEN "denied"
                      ELSE "error")

\* The times at which requests of caller c were admitted.
AdmittedTimes(c) ==
    LET log == RequestLog[c]
    IN [k \in DOMAIN SelectSeq(log, LAMBDA e : e.admitted) |->
            SelectSeq(log, LAMBDA e : e.admitted)[k].time]

\* A denied request leaves the caller's entry as it was.
DeniedLeavesCount ==
    (LastOp("checkRateLimit") /\ ~vout.admitted) => rateLimitMap[vin.clientId] = vin.before

\* C23: for every caller and every interval of 60 seconds, the requests
\* admitted within the interval number at most the ceiling; a denied request
\* leaves the caller's entry as it was.
C23_AtMostCeilingPerInterval ==
    /\ \A c \in CallerIds :
          \A a \in DOMAIN AdmittedTimes(c) :
             Cardinality({k \in DOMAIN AdmittedTimes(c) :
                             /\ AdmittedTimes(c)[a] <= AdmittedTimes(c)[k]
                             /\ AdmittedTimes(c)[k] < AdmittedTimes(c)[a] + RateWindow})
                <= RateCeiling
    /\ DeniedLeavesCount

\* C24: a request of a caller whose window holds the ceiling of admitted
\* requests is denied when it comes at most 60 seconds after the window's
\* first request; a request that comes more than 60 seconds after the
\* window's first request is admitted and starts a new window.
C24_FullWindowDeniesUntilReset ==
    (LastOp("checkRateLimit") /\ vin.before # NotSet) =>
        IF vin.now - vin.before.resetTime > RateWindow
        THEN vout.admitted /\ rateLimitMap[vin.clientId] = [count |-> 1, resetTime |-> vin.now]
        ELSE vin.before.count >= RateCeiling => ~vout.admitted

\* The caller was denied at exactly 60 seconds after its window's first
\* request, and admitted one millisecond later.
C24_Witness ==
    /\ LastOp("checkRateLimit")
    /\ vout.admitted
    /\ vin.before # NotSet
    /\ vin.before.count = RateCeiling
    /\ vin.now = vin.before.resetTime + RateWindow + 1
    /\ \E k \in DOMAIN RequestLog[vin.clientId] :
          /\ ~RequestLog[vin.clientId][k].admitted
          /\ RequestLog[vin.clientId][k].time = vin.before.resetTime + RateWindow

\* C26: the audit log never holds more than the ceiling of entries, and it
\* always holds the most recently appended entries: whatever was dropped is
\* older than everything kept.
C26_CappedKeepingNewest ==
    /\ Len(auditLogs) <= AuditCeiling
    /\ {auditLogs[i].logId : i \in DOMAIN auditLogs}
         = (Len(Appended) - Len(auditLogs) + 1)..Len(Appended)

C28_NoEndlessLoop ==
    (job # NotSet /\ LoopGoesOn(job)) => PassOf(job) # job

\* The engine rejected the statement of the last executeQuery call.
Rejected == vin # NotSet /\ ~vout.thrown /\ ~vout.result.success

\* C29: when the engine rejects the statement, executeQuery has handed it to
\* the engine once, its result is success = false with the engine's message
\* as it is and the duration of the call, the borrowed handle was returned,
\* and the tool call's response is an error payload.
C29_RejectionSurfacesOnce ==
    Rejected =>
        /\ vout.ran = <<vin.query>>
        /\ vout.result = [success |-> FALSE, error |-> vin.message,
                          executionTime |-> now - vin.startTime]
        /\ \E g \in getConnection(vin.poolBefore) :
              /\ g.ok
              /\ g.handle = vout.handle
              /\ ThePool \in returnConnection(g.pool, g.handle)
        /\ committed = vin.before
        /\ vout.response.isError

\* A write the engine rejected with a message, on a pooled handle, after a
\* measurable time.
C29_Witness ==
    /\ Rejected
    /\ vin.query = ReplaceUsers
    /\ vin.message = "UNIQUE constraint failed: users.id"
    /\ vout.handle # Primary
    /\ now > vin.startTime
    /\ vout.response.text[4] = vin.message

\* C30: a bulk insert whose options leave insertRelatedData out behaves as
\* with insertRelatedData = true: when the engine accepts every statement,
\* the related rows are inserted, before the main rows.
C30_DocumentedDefaultsApply ==
    (/\ BulkCalled
     /\ vin.op = "insert"
     /\ "insertRelatedData" \notin DOMAIN vin.data.options
     /\ vin.data.relatedData # <<>>
     /\ vin.data.relatedData[1].shaped
     /\ FailingIndexes(vin.outcomes) = {}
     /\ \A t \in DOMAIN vin.relatedOutcomes : FailingIndexes(vin.relatedOutcomes[t]) = {})
    => LET related == RelatedRows(vin.data.relatedData, 1)
       IN /\ Len(vout.ran) = Len(related) + vin.n
          /\ SubSeq(vout.ran, 1, Len(related)) = related

\* The same for bulk delete: with cascadeDelete left out, the rows of posts
\* that refer to a deleted user are deleted with it.
CascadeDefaultApplies ==
    (/\ BulkCalled
     /\ vin.op = "delete"
     /\ "data" \in DOMAIN vin
     /\ "cascadeDelete" \notin DOMAIN vin.data.options
     /\ ~vout.thrown)
    => \A k \in 1..vin.n :
          LET v == vin.data.conditions[k].id
          IN (\E u \in vin.before.users : u.id = v) =>
                ~\E p \in committed.posts : p.user_id = v

\* C31: totalBatches is the ceiling of totalRecords / batchSize, with 1000
\* for a batch size that is not given; currentBatch never exceeds
\* totalBatches while the job runs, and equals it when the job is done.
C31_BatchCounters ==
    job # NotSet =>
        LET p == job.st.progress
        IN /\ p.totalBatches = CeilNumber(p.totalRecords, BatchSizeOf(vin.batchSize))
           /\ vin.batchSize = 0 => p.totalBatches = Ceil(p.totalRecords, DefaultBatchSize)
           /\ p.currentBatch <= p.totalBatches
           /\ job.status = "done" => p.currentBatch = p.totalBatches

\* C32: activeConnections is never negative and equals the number of
\* non-primary handles that callers hold.
C32_ActiveCountsLent ==
    /\ activeConnections >= 0
    /\ activeConnections = Cardinality({c \in Callers : lent[c] \notin {NoHandle, Primary}})

\* The scopes that allow changing tables.
ModifyingScopes == {"create", "update", "delete", "ddl"}

\* C33: a sqlite_query call of a caller that holds none of create, update,
\* delete and ddl leaves the database file as it was.
C33_ReadOnlyCallerChangesNothing ==
    [][\A s \in Slots :
         (/\ calls'[s].tool = "sqlite_query"
          /\ calls'[s].pc = "done"
          /\ calls[s].pc # "done"
          /\ calls'[s].permissions \cap ModifyingScopes = {})
         => committed' = committed]_vars

\* C34: the statement and the parameters that executeQuery receives for a
\* sqlite_query call are the sanitizedQuery and the parameters of the
\* validation result.
C34_ExecutorReceivesSanitized ==
    \A s \in Slots :
        (calls[s].tool = "sqlite_query" /\ calls[s].pc = "done" /\ calls[s].ran # <<>>)
        => /\ calls[s].ran = <<calls[s].validation.sanitizedQuery>>
           /\ calls[s].ranParameters = <<calls[s].validation.parameters>>

\* C35: getAuditLogs, with or without a clientId, leaves the stored audit
\* log as it was: the same entries in the same order.
C35_GetAuditLogsReadsOnly ==
    (vin # NotSet /\ vin.op = "getAuditLogs") => auditLogs = vin.before

\* C36: a tool call of a caller whose clientId has no configured session is
\* made with the empty scope set and is rejected at once, with no statement
\* run, no handle borrowed, and the pool and the file as they were.
C36_NoSessionNoAccess ==
    [][\A s \in Slots :
         (/\ calls[s].pc = "idle"
          /\ calls'[s].pc # "idle"
          /\ calls'[s].clientId \notin DOMAIN clientPermissions)
         => /\ calls'[s].permissions = {}
            /\ calls'[s].pc = "done"
            /\ calls'[s].outcome = "Insufficient permissions"
            /\ calls'[s].ran = <<>>
            /\ ~calls'[s].borrowed
            /\ ThePool' = ThePool
            /\ committed' = committed]_vars

\* A caller without a session is rejected while the default session holds
\* every scope.
C36_Witness ==
    \E s \in Slots :
        /\ calls[s].clientId = "client-2"
        /\ calls[s].tool = "sqlite_query"
        /\ calls[s].outcome = "Insufficient permissions"
        /\ clientPermissions["default"] = PermissionType

\* C37: when a bulk job returns its result, errors has exactly failedRecords
\* entries, and the recordIndex of each entry is the 0-based index, within
\* the input list, of a record whose statement failed.
C37_ErrorsMatchFailedRecords ==
    BulkReturned =>
        /\ Len(vout.progress.errors) = vout.progress.failedRecords
        /\ \A k \in DOMAIN vout.progress.errors :
              /\ vout.progress.errors[k].recordIndex \in 0..(vout.progress.totalRecords - 1)
              /\ vout.progress.errors[k].recordIndex \in FailingIndexes(vin.outcomes)

\* The values of the conditions of the last bulk delete that were counted
\* as successful.
DeletedKeys ==
    {vin.data.conditions[k].id :
        k \in {i \in DOMAIN vin.outcomes : vin.outcomes[i] = "ok"}}

C39_IdleListBounded == Len(connectionPool) <= IdleTarget

\* A handle was returned while the idle list was full, and was closed.
C39_Witness ==
    /\ vin # NotSet
    /\ vin.op = "return"
    /\ Len(vout.idleBefore) = IdleTarget
    /\ vout.handle # Primary
    /\ vout.handle \in closed
    /\ Len(connectionPool) = IdleTarget

\* The last operation was a sweep of the rate limiter's entries.
Swept == vin # NotSet /\ vin.op = "cleanupRateLimitData"

\* The sweep changed nothing that a later admission check can observe: for
\* every caller and every later instant, the answer and the caller's entry
\* after the check are the same with the map swept and with the map as it
\* was before the sweep.
SweepUnobservable ==
    \A c \in CallerIds : \A t \in {i \in Instants : i >= vin.now} :
        LET swept == checkRateLimit(rateLimitMap, c, RateCeiling, t)
            kept == checkRateLimit(vin.before, c, RateCeiling, t)
        IN swept.admitted = kept.admitted /\ swept.map[c] = kept.map[c]

\* C40: cleanupRateLimitData discards exactly the entries whose window
\* closed more than two windows ago (the window of an entry closes one
\* window after its resetTime), and no later admission check is changed.
C40_SweepDiscardsClosedTwoWindowsAgo ==
    Swept =>
        /\ \A c \in CallerIds :
              rateLimitMap[c] =
                 IF /\ vin.before[c] # NotSet
                    /\ vin.before[c].resetTime + RateWindow < vin.now - 2 * RateWindow
                 THEN NotSet ELSE vin.before[c]
        /\ SweepUnobservable

\* C40, amended: cleanupRateLimitData discards exactly the entries whose
\* window opened more than two windows (120 seconds) ago, and no later
\* admission check is changed.
C40_SweepDiscardsOpenedTwoWindowsAgo ==
    Swept =>
        /\ \A c \in CallerIds :
              rateLimitMap[c] =
                 IF /\ vin.before[c] # NotSet
                    /\ vin.before[c].resetTime < vin.now - 2 * RateWindow
                 THEN NotSet ELSE vin.before[c]
        /\ SweepUnobservable

\* A sweep discarded one caller's entry and kept another's.
C40_Witness ==
    /\ Swept
    /\ \E c \in CallerIds : vin.before[c] # NotSet /\ rateLimitMap[c] = NotSet
    /\ \E c \in CallerIds : vin.before[c] # NotSet /\ rateLimitMap[c] = vin.before[c]

====
